---- MODULE Spec2Model ----
(***************************************************************************)
(* Snippetbox: the request-processing pipeline of cmd/web (middleware      *)
(* chain, session-backed authentication, handlers) over the User store,    *)
(* the Snippet store and the session store.                                *)
(*                                                                         *)
(* A request is a record req[r] that moves through the chain built by      *)
(* routes(): one action per middleware or handler.  The stores are shared  *)
(* by all requests.                                                        *)
(***************************************************************************)
EXTENDS Integers, Sequences, FiniteSets, TLC

VARIABLES users, nextUserID, snippets, nextSnippetID, sessions, nextToken, now, req,
          call, templateCache

vars ==
    <<users, nextUserID, snippets, nextSnippetID, sessions, nextToken, now, req, call,
      templateCache>>

(***************************************************************************)
(* Bounds of the model.                                                    *)
(***************************************************************************)
\* requests are served one after the other: one slot is in use
NumReqs == 1
MaxUsers == 1
MaxSnippets == 1
MaxTokens == 3
\* the clock counts days and stops at MaxNow
MaxNow == 2
\* callers of the models, each making one call
NumCallers == 2
\* rows of the snippets table when Latest is exercised
MaxRows == 12

Reqs == 1..NumReqs
Callers == 1..NumCallers
Tokens == 1..MaxTokens
NoToken == 0

Emails == {"a@x.io", "b@x.io"}
Passwords == {"pw-one", "pw-two"}
\* the password every account is registered with: "pw-two" is always wrong
SignupPasswords == {"pw-one"}

(***************************************************************************)
(* HTTP status codes used by the handlers (net/http constants).            *)
(***************************************************************************)
StatusOK == 200
StatusSeeOther == 303
StatusBadRequest == 400
StatusNotFound == 404
StatusUnprocessableEntity == 422
StatusInternalServerError == 500

(***************************************************************************)
(* routes(): the registered routes and the chain each one is wrapped in.   *)
(***************************************************************************)
\* the logger composed outside the recovery
StandardLoggerFirst == <<"logRequest", "recoverPanic", "secureHeaders">>

\* alice.New(app.recoverPanic, app.logRequest, secureHeaders)
Standard == <<"recoverPanic", "logRequest", "secureHeaders">>

\* authenticate registered twice
DynamicTwice == <<"LoadAndSave", "authenticate", "authenticate">>

\* alice.New(app.sessionManager.LoadAndSave, app.authenticate)
Dynamic == <<"LoadAndSave", "authenticate">>

\* the gate composed before authenticate
ProtectedGateFirst == <<"LoadAndSave", "requireAuthentication", "authenticate">>

\* dynamic.Append(app.requireAuthentication)
Protected == Dynamic \o <<"requireAuthentication">>

DynamicRoutes ==
    { "GET /user/signup", "POST /user/signup", "GET /user/login", "POST /user/login",
      "GET /", "GET /snippet/view/:id" }

ProtectedRoutes ==
    { "GET /snippet/create", "POST /snippet/create", "POST /user/logout" }

PlainRoutes == { "GET /static/*filepath", "GET /ping" }

\* a request that matches no registered pattern goes to router.NotFound
Unmatched == "unmatched"

Routes == DynamicRoutes \cup ProtectedRoutes \cup PlainRoutes \cup {Unmatched}

HandlerOf(route) ==
    CASE route = "GET /user/signup" -> "userSignup"
      [] route = "POST /user/signup" -> "userSignupPost"
      [] route = "GET /user/login" -> "userLogin"
      [] route = "POST /user/login" -> "userLoginPost"
      [] route = "GET /" -> "home"
      [] route = "GET /snippet/view/:id" -> "snippetView"
      [] route = "GET /snippet/create" -> "snippetCreate"
      [] route = "POST /snippet/create" -> "snippetCreatePost"
      [] route = "POST /user/logout" -> "userLogoutPost"
      [] route = "GET /static/*filepath" -> "fileServer"
      [] route = "GET /ping" -> "ping"
      [] OTHER -> "notFound"

\* logout registered with the dynamic chain instead of the protected one
RouteChainLogoutOpen(route) ==
    IF route \in DynamicRoutes \cup {"POST /user/logout"}
    THEN Dynamic \o <<HandlerOf(route)>>
    ELSE IF route \in ProtectedRoutes THEN Protected \o <<HandlerOf(route)>>
    ELSE <<HandlerOf(route)>>

\* the stages the router dispatches a matched request to
RouteChain(route) ==
    IF route \in DynamicRoutes THEN Dynamic \o <<HandlerOf(route)>>
    ELSE IF route \in ProtectedRoutes THEN Protected \o <<HandlerOf(route)>>
    ELSE <<HandlerOf(route)>>

\* standard.Then(router): the whole chain of a request
Chain(route) == Standard \o <<"router">> \o RouteChain(route)

MethodOf(route) ==
    IF route \in {"POST /user/signup", "POST /user/login", "POST /snippet/create",
                  "POST /user/logout"}
    THEN "POST" ELSE "GET"

(***************************************************************************)
(* http.ResponseWriter: the first WriteHeader fixes the status and the     *)
(* headers that are sent; later calls are superfluous and change nothing.  *)
(***************************************************************************)
NoLoc == [path |-> "", id |-> 0]
LoginLoc == [path |-> "/user/login", id |-> 0]
HomeLoc == [path |-> "/", id |-> 0]
ViewLoc(id) == [path |-> "/snippet/view/", id |-> id]

SecureHeaderNames ==
    { "Content-Security-Policy", "Referrer-Policy", "X-Content-Type-Options",
      "X-Frame-Options", "X-XSS-Protection" }

NewWriter ==
    [ hdr |-> {},            \* names of the headers set so far
      location |-> NoLoc,    \* the Location header
      code |-> 0,            \* status sent, 0 while no header was written
      sentHdr |-> {},        \* headers as they were when the status was sent
      sentLoc |-> NoLoc,     \* Location as it was when the status was sent
      calls |-> <<>>,        \* every status passed to WriteHeader
      body |-> <<>>,         \* what was written to the body
      cookie |-> NoToken ]   \* session cookie issued

WriteHeader(w, code) ==
    IF w.code # 0
    THEN [w EXCEPT !.calls = Append(@, code)]
    ELSE [w EXCEPT !.code = code, !.sentHdr = w.hdr, !.sentLoc = w.location,
                   !.calls = Append(@, code)]

WriteBody(w, text) ==
    LET w1 == IF w.code = 0 THEN WriteHeader(w, StatusOK) ELSE w
    IN  [w1 EXCEPT !.body = Append(@, text)]

SetHeader(w, name) == [w EXCEPT !.hdr = @ \cup {name}]

\* http.Error
HttpError(w, text, code) ==
    LET w1 == SetHeader(SetHeader(w, "Content-Type"), "X-Content-Type-Options")
    IN  WriteBody(WriteHeader(w1, code), [page |-> "", msg |-> text])

\* http.Redirect
HttpRedirect(w, method, loc, code) ==
    LET hadCT == "Content-Type" \in w.hdr
        w1 == [w EXCEPT !.location = loc]
        w2 == IF ~hadCT /\ method = "GET" THEN SetHeader(w1, "Content-Type") ELSE w1
        w3 == WriteHeader(w2, code)
    IN  IF ~hadCT /\ method = "GET"
        THEN WriteBody(w3, [page |-> "", msg |-> "redirect"])
        ELSE w3

\* app.serverError
serverError(w) == HttpError(w, "Internal Server Error", StatusInternalServerError)

\* a client error answered as a failure of the server
clientErrorAsServerError(w, status) == serverError(w)

\* app.clientError
clientError(w, status) == HttpError(w, "status text", status)

\* app.notFound
notFound(w) == clientError(w, StatusNotFound)

(***************************************************************************)
(* The template cache and render.                                          *)
(***************************************************************************)
Pages == { "home.html", "view.html", "create.html", "signup.html", "login.html" }

\* template.ParseFiles: the template set compiled from the files of a page; parse
\* tells one compilation from another
ParseFiles(page, parse) == [name |-> page, parse |-> parse]

\* newTemplateCache, called once by main before the server listens
newTemplateCache == [page \in Pages |-> ParseFiles(page, 1)]

\* ts.ExecuteTemplate(buf, "base", data): msg is the part of the template data
\* that depends on the request; an execution that fails has written the
\* beginning of the page to the buffer
ExecuteTemplate(ts, msg, execErr) ==
    IF execErr
    THEN [err |-> TRUE, buf |-> <<[page |-> ts.name, msg |-> "partial"]>>]
    ELSE [err |-> FALSE, buf |-> <<[page |-> ts.name, msg |-> msg]>>]

\* buf.WriteTo(w)
WriteTo(buf, w) == IF buf = <<>> THEN w ELSE WriteBody(w, buf[1])

\* app.newTemplateData(): the current year and nothing else; Flash stays the
\* empty string
newTemplateData == [CurrentYear |-> "time.Now().Year()", Flash |-> ""]

\* the page templates execute without error on the data the handlers pass
ExecOK == FALSE

\* app.render
render(w, status, page, msg, execErr) ==
    IF page \notin DOMAIN templateCache
    THEN serverError(w)
    ELSE LET res == ExecuteTemplate(templateCache[page], msg, execErr)
         IN  IF res.err
             THEN serverError(w)
             ELSE WriteTo(res.buf, WriteHeader(w, status))

(***************************************************************************)
(* Go strings are sequences of bytes that hold UTF-8 text; the strings of  *)
(* the model are encodings of code points below 65536.                     *)
(***************************************************************************)
Space == 32

\* the code points of unicode.IsSpace
WhiteSpace ==
    {9, 10, 11, 12, 13, Space, 133, 160, 5760, 8232, 8233, 8239, 8287, 12288}
        \cup 8192..8202

\* n times the byte c
Rep(c, n) == [i \in 1..n |-> c]

\* utf8.EncodeRune
EncodeRune(r) ==
    IF r < 128 THEN <<r>>
    ELSE IF r < 2048 THEN <<192 + (r \div 64), 128 + (r % 64)>>
    ELSE <<224 + (r \div 4096), 128 + ((r \div 64) % 64), 128 + (r % 64)>>

\* the string of n times the code point r
RepRune(r, n) ==
    LET e == EncodeRune(r)
    IN  [i \in 1..(n * Len(e)) |-> e[((i - 1) % Len(e)) + 1]]

\* the bytes of s at which the encoding of a code point starts
RuneStarts(s) == {i \in 1..Len(s) : s[i] < 128 \/ s[i] >= 192}

\* utf8.DecodeRuneInString(s[i:])
DecodeRune(s, i) ==
    IF s[i] < 128 THEN s[i]
    ELSE IF s[i] < 224 THEN (s[i] - 192) * 64 + (s[i + 1] - 128)
    ELSE (s[i] - 224) * 4096 + (s[i + 1] - 128) * 64 + (s[i + 2] - 128)

\* utf8.RuneCountInString
RuneCount(s) == Cardinality(RuneStarts(s))

\* strings.TrimSpace(s) # ""
NotBlank(s) == \E i \in RuneStarts(s) : DecodeRune(s, i) \notin WhiteSpace

\* MaxRunes comparing len(value), the number of bytes
MaxRunesBytes(s, maxCount) == Len(s) <= maxCount

\* validator.MaxRunes
MaxRunes(s, maxCount) == RuneCount(s) <= maxCount

\* AllowedInt taking the permitted values for the ends of a range
AllowedIntRange(value, allowedValues) ==
    \E lo \in allowedValues, hi \in allowedValues : lo <= value /\ value <= hi

\* validator.AllowedInt
AllowedInt(value, allowedValues) == \E v \in allowedValues : v = value

(***************************************************************************)
(* validator.Validator: FieldErrors maps a field key to its first message, *)
(* NonFieldErrors is a list of messages.                                   *)
(***************************************************************************)
NewValidator == [FieldErrors |-> <<>>, NonFieldErrors |-> <<>>]

HasFieldError(v, key) == \E i \in 1..Len(v.FieldErrors) : v.FieldErrors[i].key = key

\* Validator.AddFieldError
AddFieldError(v, key, message) ==
    IF HasFieldError(v, key)
    THEN v
    ELSE [v EXCEPT !.FieldErrors = Append(@, [key |-> key, message |-> message])]

\* Validator.AddNonFieldError
AddNonFieldError(v, message) == [v EXCEPT !.NonFieldErrors = Append(@, message)]

\* the value of v.FieldErrors[key], "" when the key is absent
FieldError(v, key) ==
    IF HasFieldError(v, key)
    THEN LET i == CHOOSE j \in 1..Len(v.FieldErrors) : v.FieldErrors[j].key = key
         IN  v.FieldErrors[i].message
    ELSE ""

\* CheckField passing the message for the key and the key for the message
CheckFieldSwapped(v, ok, key, message) ==
    IF ~ok THEN AddFieldError(v, message, key) ELSE v

\* Validator.CheckField
CheckField(v, ok, key, message) == IF ~ok THEN AddFieldError(v, key, message) ELSE v

\* Valid looking at the non-field errors alone
ValidNonFieldOnly(v) == Len(v.NonFieldErrors) = 0

\* Validator.Valid
Valid(v) == Len(v.FieldErrors) = 0 /\ Len(v.NonFieldErrors) = 0

(***************************************************************************)
(* models.UserModel over the users table.  A row is [id, name, email, hashed]. *)
(* fault names the storage failure the call meets ("none": no failure).    *)
(***************************************************************************)
ErrNil == "nil"
ErrInvalidCredentials == "models: invalid credentials"
ErrDuplicateEmail == "models: duplicate email"
ErrNoRecord == "models: no matching record found"
ErrStorage == "storage error"

\* bcrypt.GenerateFromPassword
Hash(password) == <<"bcrypt", password>>

\* bcrypt.CompareHashAndPassword
CompareHashAndPassword(hashed, password) == hashed = Hash(password)

\* UserModel.Exists
UserExists(rows, id, fault) ==
    IF fault
    THEN [exists |-> FALSE, err |-> ErrStorage]
    ELSE [exists |-> (\E u \in rows : u.id = id), err |-> ErrNil]

\* UserModel.Authenticate that reports an unknown email as "no record"
UserAuthenticateTellsApart(rows, email, password, fault) ==
    IF fault
    THEN [id |-> 0, err |-> ErrStorage]
    ELSE IF ~\E u \in rows : u.email = email
    THEN [id |-> 0, err |-> ErrNoRecord]
    ELSE LET u == CHOOSE x \in rows : x.email = email
         IN  IF ~CompareHashAndPassword(u.hashed, password)
             THEN [id |-> 0, err |-> ErrInvalidCredentials]
             ELSE [id |-> u.id, err |-> ErrNil]

\* UserModel.Authenticate
UserAuthenticate(rows, email, password, fault) ==
    IF fault
    THEN [id |-> 0, err |-> ErrStorage]
    ELSE IF ~\E u \in rows : u.email = email
    THEN [id |-> 0, err |-> ErrInvalidCredentials]
    ELSE LET u == CHOOSE x \in rows : x.email = email
         IN  IF ~CompareHashAndPassword(u.hashed, password)
             THEN [id |-> 0, err |-> ErrInvalidCredentials]
             ELSE [id |-> u.id, err |-> ErrNil]

UserInsertFaults == {"none", "begin", "hash", "exec", "exec1062", "commit"}

\* MySQL error number of a duplicate entry
ER_DUP_ENTRY == 1062

ErrOtherKey == "Error 1062: Duplicate entry for key 'PRIMARY'"

NoError == [Number |-> 0, Message |-> ErrNil]

\* the error of InsertStmt.Exec: the users table has the unique key
\* users_uc_email on the email column
ExecError(rows, email, fault) ==
    IF fault = "exec" THEN [Number |-> 0, Message |-> ErrStorage]
    ELSE IF fault = "exec1062" THEN [Number |-> ER_DUP_ENTRY, Message |-> ErrOtherKey]
    ELSE IF \E u \in rows : u.email = email
    THEN [Number |-> ER_DUP_ENTRY, Message |-> "users_uc_email"]
    ELSE NoError

\* every duplicate entry reported as a duplicate email
InsertErrorAnyKey(e) ==
    IF e.Number = ER_DUP_ENTRY THEN ErrDuplicateEmail ELSE e.Message

\* UserModel.Insert: what is returned for the error of Exec
InsertError(e) ==
    IF e.Number = ER_DUP_ENTRY /\ e.Message = "users_uc_email"
    THEN ErrDuplicateEmail
    ELSE e.Message

\* the INSERT without the unique key on email
UserInsertExecNoKey(rows, nextID, name, email, password, fault) ==
    LET e == IF fault \in {"exec", "exec1062"} THEN ExecError(rows, email, fault)
             ELSE NoError
    IN  IF e # NoError
        THEN [rows |-> rows, nextID |-> nextID, err |-> InsertError(e)]
        ELSE [rows |-> rows \cup {[id |-> nextID, name |-> name, email |-> email,
                                   hashed |-> Hash(password)]},
              nextID |-> nextID + 1, err |-> ErrNil]

\* the INSERT with the password as it was given
UserInsertExecPlaintext(rows, nextID, name, email, password, fault) ==
    LET e == ExecError(rows, email, fault)
    IN  IF e # NoError
        THEN [rows |-> rows, nextID |-> nextID, err |-> InsertError(e)]
        ELSE [rows |-> rows \cup {[id |-> nextID, name |-> name, email |-> email,
                                   hashed |-> password]},
              nextID |-> nextID + 1, err |-> ErrNil]

\* UserModel.Insert, the statement: InsertStmt.Exec runs on the pool, outside the
\* transaction tx, so the row is stored as soon as Exec succeeds.
UserInsertExec(rows, nextID, name, email, password, fault) ==
    LET e == ExecError(rows, email, fault)
    IN  IF e # NoError
        THEN [rows |-> rows, nextID |-> nextID, err |-> InsertError(e)]
        ELSE [rows |-> rows \cup {[id |-> nextID, name |-> name, email |-> email,
                                   hashed |-> Hash(password)]},
              nextID |-> nextID + 1, err |-> ErrNil]

\* UserModel.Insert: Begin, GenerateFromPassword, Exec, Commit
UserInsert(rows, nextID, name, email, password, fault) ==
    IF fault \in {"begin", "hash"}
    THEN [rows |-> rows, nextID |-> nextID, err |-> ErrStorage]
    ELSE LET res == UserInsertExec(rows, nextID, name, email, password, fault)
         IN  IF res.err = ErrNil /\ fault = "commit"
             THEN [res EXCEPT !.err = ErrStorage]
             ELSE res

(***************************************************************************)
(* models.SnippetModel over the snippets table.                            *)
(***************************************************************************)
LatestLimit == 10

SnippetInsertFaults == {"none", "begin", "exec", "commit", "lastid"}

\* SnippetModel.Insert: the statement runs inside the transaction; the id is
\* read with LastInsertId after the Commit
SnippetInsert(rows, nextID, title, content, expires, t, fault) ==
    IF fault \in {"begin", "exec", "commit"}
    THEN [rows |-> rows, nextID |-> nextID, id |-> 0, err |-> ErrStorage]
    ELSE [rows |-> rows \cup {[id |-> nextID, title |-> title, content |-> content,
                               created |-> t, expires |-> t + expires]},
          nextID |-> nextID + 1,
          id |-> IF fault = "lastid" THEN 0 ELSE nextID,
          err |-> IF fault = "lastid" THEN ErrStorage ELSE ErrNil]

\* SnippetModel.Get with expires >= UTC_TIMESTAMP()
SnippetGetInclusive(rows, id, t, fault) ==
    IF fault
    THEN [found |-> FALSE, id |-> 0, err |-> ErrStorage]
    ELSE IF \E s \in rows : s.expires >= t /\ s.id = id
    THEN [found |-> TRUE, id |-> id, err |-> ErrNil]
    ELSE [found |-> FALSE, id |-> 0, err |-> ErrNoRecord]

\* SnippetModel.Get
SnippetGet(rows, id, t, fault) ==
    IF fault
    THEN [found |-> FALSE, id |-> 0, err |-> ErrStorage]
    ELSE IF \E s \in rows : s.expires > t /\ s.id = id
    THEN [found |-> TRUE, id |-> id, err |-> ErrNil]
    ELSE [found |-> FALSE, id |-> 0, err |-> ErrNoRecord]

RECURSIVE TopIds(_, _)
TopIds(ids, n) ==
    IF n = 0 \/ ids = {}
    THEN <<>>
    ELSE LET m == CHOOSE x \in ids : \A y \in ids : y <= x
         IN  <<m>> \o TopIds(ids \ {m}, n - 1)

\* SnippetModel.Latest without the LIMIT
SnippetLatestNoLimit(rows, t, fault) ==
    IF fault
    THEN [ids |-> <<>>, err |-> ErrStorage]
    ELSE [ids |-> TopIds({s.id : s \in {x \in rows : x.expires > t}}, Cardinality(rows)),
          err |-> ErrNil]

\* SnippetModel.Latest: the ids of the rows returned, in order
SnippetLatest(rows, t, fault) ==
    IF fault
    THEN [ids |-> <<>>, err |-> ErrStorage]
    ELSE [ids |-> TopIds({s.id : s \in {x \in rows : x.expires > t}}, LatestLimit),
          err |-> ErrNil]

(***************************************************************************)
(* scs.SessionManager over the sessions table: a stored session is         *)
(* [uid, flash] under its token; uid 0 is "no authenticatedUserID".        *)
(* A request works on its own copy sd, loaded at the start and committed   *)
(* when the handler has returned.                                          *)
(***************************************************************************)
NoSession == [token |-> NoToken, uid |-> 0, flash |-> FALSE, status |-> "Unloaded"]

\* SessionManager.Load
Load(store, token) ==
    IF token \in DOMAIN store
    THEN [token |-> token, uid |-> store[token].uid, flash |-> store[token].flash,
          status |-> "Unmodified"]
    ELSE [token |-> NoToken, uid |-> 0, flash |-> FALSE, status |-> "Unmodified"]

\* SessionManager.GetInt(ctx, "authenticatedUserID")
GetInt(sd) == sd.uid

\* SessionManager.Put(ctx, "authenticatedUserID", id)
PutUserID(sd, id) == [sd EXCEPT !.uid = id, !.status = "Modified"]

\* SessionManager.Put(ctx, "flash", message)
PutFlash(sd) == [sd EXCEPT !.flash = TRUE, !.status = "Modified"]

\* SessionManager.Remove(ctx, "authenticatedUserID")
RemoveUserID(sd) ==
    IF sd.uid = 0 THEN sd ELSE [sd EXCEPT !.uid = 0, !.status = "Modified"]

StoreDelete(store, token) == [t \in DOMAIN store \ {token} |-> store[t]]

\* a store that keeps the data it already holds under a token
StorePutFirstWins(store, token, sd) ==
    [t \in DOMAIN store \cup {token} |->
        IF t = token /\ t \notin DOMAIN store THEN [uid |-> sd.uid, flash |-> sd.flash]
        ELSE store[t]]

\* Store.Commit: the whole session data replaces what is stored under the token
StorePut(store, token, sd) ==
    [t \in DOMAIN store \cup {token} |->
        IF t = token THEN [uid |-> sd.uid, flash |-> sd.flash] ELSE store[t]]

\* SessionManager.RenewToken: the old token is deleted from the store and the
\* session data continues under a fresh token
RenewTokenData(sd, fresh) == [sd EXCEPT !.token = fresh, !.status = "Modified"]

RenewTokenStore(store, sd) ==
    IF sd.token # NoToken THEN StoreDelete(store, sd.token) ELSE store

(***************************************************************************)
(* A request in flight.                                                    *)
(***************************************************************************)
Idle ==
    [ pc |-> "idle",          \* idle, run (going down the chain), unwind, panic, done
      route |-> Unmatched,
      pos |-> 1,              \* the stage of Chain(route) that runs next
      cookie |-> NoToken,     \* session token the request arrived with
      sd |-> NoSession,       \* session data in the request context
      ctxAuth |-> FALSE,      \* isAuthenticatedContextKey is true in the context
      id |-> 0,               \* authenticate: the id read from the session
      exists |-> "none",      \* authenticate: what Exists answered
      existsErr |-> FALSE,    \* authenticate: Exists returned an error
      authErr |-> "",         \* userLoginPost: the error of users.Authenticate
      loginID |-> 0,          \* userLoginPost: the id users.Authenticate returned
      newID |-> 0,            \* id of the row this request inserted
      arg |-> 0,              \* snippetView: the id asked for, 0 if not a positive number
      shown |-> 0,            \* snippetView: the id of the snippet rendered
      form |-> "none",        \* snippetCreatePost: undecodable, invalid or valid
      v |-> NewValidator,     \* snippetCreatePost: the form's Validator after the checks
      fault |-> FALSE,        \* the handler met a storage failure
      logged |-> FALSE,       \* logRequest wrote its line
      panic |-> "none",       \* none, raised, recovered, escaped (to net/http)
      errorLog |-> <<>>,      \* what recoverPanic wrote to errorLog
      ran |-> <<>>,           \* stages entered, in order
      w |-> NewWriter ]

Stage(q) == Chain(q.route)[q.pos]

Running(r, stage) == req[r].pc = "run" /\ Stage(req[r]) = stage

Enter(q) == [q EXCEPT !.ran = Append(@, Stage(q))]

\* next.ServeHTTP(w, r)
CallNext(q) == [q EXCEPT !.pos = @ + 1]

\* a return that goes past LoadAndSave
ReturnPastSave(q) == [q EXCEPT !.pc = "done"]

\* the stage returns: the stages above it resume, LoadAndSave first
Return(q) ==
    [q EXCEPT !.pc = IF \E i \in 1..Len(q.ran) : q.ran[i] = "LoadAndSave"
                     THEN "unwind" ELSE "done"]

InFlight == Cardinality({r \in Reqs : req[r].pc # "idle"})

IssuedTokens == 1..(nextToken - 1)

Set(r, q) == req' = [req EXCEPT ![r] = q]

(***************************************************************************)
(* The middleware, as functions of the request.                            *)
(***************************************************************************)
recoverPanic(q) == CallNext(Enter(q))

\* the deferred function of recoverPanic when recover() returns a panic value
recoverPanicDeferred(q) ==
    [q EXCEPT !.pc = "done", !.panic = "recovered",
              !.errorLog = Append(@, [err |-> "panic value", trace |-> TRUE]),
              !.w = serverError(SetHeader(q.w, "Connection"))]

logRequest(q) == CallNext([Enter(q) EXCEPT !.logged = TRUE])

secureHeaders(q) == CallNext([Enter(q) EXCEPT !.w.hdr = @ \cup SecureHeaderNames])

\* httprouter: the request goes to the chain registered for its route
router(q) == CallNext(Enter(q))

\* app.isAuthenticated: the marker of the request context
isAuthenticated(q) == q.ctxAuth

\* the gate lets every request through
requireAuthenticationOpen(q) ==
    CallNext([Enter(q) EXCEPT !.w = SetHeader(q.w, "Cache-Control")])

\* the gate with its test negated
requireAuthenticationInverted(q) ==
    IF isAuthenticated(q)
    THEN Return([Enter(q) EXCEPT
                    !.w = HttpRedirect(q.w, MethodOf(q.route), LoginLoc, StatusSeeOther)])
    ELSE CallNext([Enter(q) EXCEPT !.w = SetHeader(q.w, "Cache-Control")])

\* the gate without the Cache-Control header
requireAuthenticationNoStore(q) ==
    IF ~isAuthenticated(q)
    THEN Return([Enter(q) EXCEPT
                    !.w = HttpRedirect(q.w, MethodOf(q.route), LoginLoc, StatusSeeOther)])
    ELSE CallNext(Enter(q))

\* app.requireAuthentication
requireAuthentication(q) ==
    IF ~isAuthenticated(q)
    THEN Return([Enter(q) EXCEPT
                    !.w = HttpRedirect(q.w, MethodOf(q.route), LoginLoc, StatusSeeOther)])
    ELSE CallNext([Enter(q) EXCEPT !.w = SetHeader(q.w, "Cache-Control")])

\* authenticate without the Exists check: a non-zero id is enough
authenticateNoExists(q, rows, fault) ==
    LET id == GetInt(q.sd)
        q1 == [Enter(q) EXCEPT !.id = id]
    IN  IF id = 0 THEN CallNext(q1) ELSE CallNext([q1 EXCEPT !.ctxAuth = TRUE])

\* authenticate that drops the error of Exists
authenticateSilent(q, rows, fault) ==
    LET id == GetInt(q.sd)
        res == UserExists(rows, id, fault)
        q1 == [Enter(q) EXCEPT !.id = id]
        q2 == [q1 EXCEPT !.exists = IF res.exists THEN "true" ELSE "false",
                         !.existsErr = res.err # ErrNil]
        q4 == IF res.exists THEN [q2 EXCEPT !.ctxAuth = TRUE] ELSE q2
    IN  IF id = 0 THEN CallNext(q1) ELSE CallNext(q4)

\* authenticate that fails the request of a user who no longer exists
authenticateStaleFails(q, rows, fault) ==
    LET id == GetInt(q.sd)
        res == UserExists(rows, id, fault)
        q1 == [Enter(q) EXCEPT !.id = id]
        q2 == [q1 EXCEPT !.exists = IF res.exists THEN "true" ELSE "false",
                         !.existsErr = res.err # ErrNil]
        q3 == IF res.err # ErrNil \/ ~res.exists
              THEN [q2 EXCEPT !.w = serverError(q2.w)] ELSE q2
        q4 == IF res.exists THEN [q3 EXCEPT !.ctxAuth = TRUE] ELSE q3
    IN  IF id = 0 THEN CallNext(q1) ELSE CallNext(q4)

\* authenticate that queries the User store before it tests the id
authenticateAlwaysQueries(q, rows, fault) ==
    LET id == GetInt(q.sd)
        res == UserExists(rows, id, fault)
        q1 == [Enter(q) EXCEPT !.id = id]
        q2 == [q1 EXCEPT !.exists = IF res.exists THEN "true" ELSE "false",
                         !.existsErr = res.err # ErrNil]
        q3 == IF res.err # ErrNil THEN [q2 EXCEPT !.w = serverError(q2.w)] ELSE q2
        q4 == IF res.exists THEN [q3 EXCEPT !.ctxAuth = TRUE] ELSE q3
    IN  CallNext(q4)

\* authenticate: after app.serverError there is no return, so the marker test
\* and next.ServeHTTP run on the error path too
authenticate(q, rows, fault) ==
    LET id == GetInt(q.sd)
        res == UserExists(rows, id, fault)
        q1 == [Enter(q) EXCEPT !.id = id]
        q2 == [q1 EXCEPT !.exists = IF res.exists THEN "true" ELSE "false",
                         !.existsErr = res.err # ErrNil]
        q3 == IF res.err # ErrNil THEN [q2 EXCEPT !.w = serverError(q2.w)] ELSE q2
        q4 == IF res.exists THEN [q3 EXCEPT !.ctxAuth = TRUE] ELSE q3
    IN  IF id = 0 THEN CallNext(q1) ELSE CallNext(q4)

\* SessionManager.LoadAndSave, before next.ServeHTTP
LoadAndSave(q, store) ==
    CallNext([Enter(q) EXCEPT !.sd = Load(store, q.cookie),
                              !.w = SetHeader(q.w, "Vary")])

(***************************************************************************)
(* A call of a model method by a caller outside the pipeline.              *)
(***************************************************************************)
NoTemplate == [name |-> "", parse |-> 0]

\* a Validator and the CheckField calls its caller makes
ValidatorLocal(checks) ==
    [ checks |-> checks,
      applied |-> 0,          \* how many of the calls were made
      v |-> NewValidator ]

\* a decoded snippetCreateForm whose title is runes times the code point rune
FormLocal(rune, runes, form) ==
    [ rune |-> rune, runes |-> runes, form |-> form, v |-> NewValidator ]

\* a call of render
RenderLocal(page, status, execErr, ts) ==
    [ page |-> page,
      status |-> status,
      execErr |-> execErr,    \* ExecuteTemplate fails
      ts |-> ts,              \* the template set read from the cache
      buf |-> <<>>,
      w |-> NewWriter ]

NoCall ==
    [ op |-> "none",
      pc |-> "idle",          \* idle, exec, commit, done
      name |-> "",
      email |-> "",
      password |-> "",
      arg |-> 0,              \* the id asked for
      at |-> 0,               \* the time of the statement
      fault |-> "none",       \* the storage failure the call met
      known |-> FALSE,        \* the email was registered when the call began
      added |-> {},           \* ids of the rows the call stored
      err |-> "",
      id |-> 0,               \* the id returned
      found |-> FALSE,        \* a value was returned
      ids |-> <<>>,           \* Latest: the ids returned
      local |-> <<>> ]        \* the variables of a call of a function of cmd/web
                              \* or of the validator: one of the records below

SetCall(c, k) == call' = [call EXCEPT ![c] = k]

(***************************************************************************)
(* Initial state: empty tables, no request in flight.                      *)
(***************************************************************************)
Init ==
    /\ users = {}
    /\ nextUserID = 1
    /\ snippets = {}
    /\ nextSnippetID = 1
    /\ sessions = <<>>
    /\ nextToken = 1
    /\ now = 0
    /\ req = [r \in Reqs |-> Idle]
    /\ call = [c \in Callers |-> NoCall]
    /\ templateCache = newTemplateCache

Stores ==
    <<users, nextUserID, snippets, nextSnippetID, sessions, nextToken, now, call,
      templateCache>>

(***************************************************************************)
(* A request arrives: any route, with no cookie or any token ever issued.  *)
(* Every request may need one fresh token.                                 *)
(***************************************************************************)
Arrive(r) ==
    /\ req[r].pc = "idle"
    /\ nextToken + InFlight <= MaxTokens
    /\ \E route \in Routes, cookie \in {NoToken} \cup IssuedTokens :
          Set(r, [Idle EXCEPT !.pc = "run", !.route = route, !.cookie = cookie])
    /\ UNCHANGED Stores

RecoverPanic(r) ==
    /\ Running(r, "recoverPanic")
    /\ Set(r, recoverPanic(req[r]))
    /\ UNCHANGED Stores

LogRequest(r) ==
    /\ Running(r, "logRequest")
    /\ Set(r, logRequest(req[r]))
    /\ UNCHANGED Stores

SecureHeaders(r) ==
    /\ Running(r, "secureHeaders")
    /\ Set(r, secureHeaders(req[r]))
    /\ UNCHANGED Stores

Router(r) ==
    /\ Running(r, "router")
    /\ Set(r, router(req[r]))
    /\ UNCHANGED Stores

SessionLoad(r) ==
    /\ Running(r, "LoadAndSave")
    /\ Set(r, LoadAndSave(req[r], sessions))
    /\ UNCHANGED Stores

Authenticate(r) ==
    /\ Running(r, "authenticate")
    /\ \E fault \in BOOLEAN : Set(r, authenticate(req[r], users, fault))
    /\ UNCHANGED Stores

RequireAuthentication(r) ==
    /\ Running(r, "requireAuthentication")
    /\ Set(r, requireAuthentication(req[r]))
    /\ UNCHANGED Stores

(***************************************************************************)
(* Inputs of the handlers.                                                 *)
(***************************************************************************)
Digits == 48..57

\* strconv.Atoi on a string of code points: an optional sign, then digits
RECURSIVE DigitsValue(_)
DigitsValue(s) ==
    IF s = <<>> THEN 0 ELSE 10 * DigitsValue(SubSeq(s, 1, Len(s) - 1)) + (s[Len(s)] - 48)

Atoi(s) ==
    LET signed == Len(s) > 0 /\ s[1] \in {43, 45}
        d == IF signed THEN Tail(s) ELSE s
    IN  IF d = <<>> \/ \E i \in 1..Len(d) : d[i] \notin Digits
        THEN [ok |-> FALSE, val |-> 0]
        ELSE [ok |-> TRUE, val |-> IF signed /\ s[1] = 45 THEN 0 - DigitsValue(d)
                                    ELSE DigitsValue(d)]

TitleLimit == 100

TitleInputs == { <<Space>>, <<84, 101, 115, 116>>, Rep(97, TitleLimit + 1) }

ContentInputs == { <<>>, <<66, 111, 100, 121>> }

ExpiresInputs == { <<49>>, <<50>>, <<97, 98, 99>> }

AllowedExpires == {1, 7, 365}

IdParams == { <<97, 98, 99>>, <<48>>, <<49>>, <<50>> }

Names == {"Ana"}

Blank == ""

(***************************************************************************)
(* The handlers.                                                           *)
(***************************************************************************)
\* router.NotFound
NotFoundHandler(r) ==
    /\ Running(r, "notFound")
    /\ Set(r, Return([Enter(req[r]) EXCEPT !.w = notFound(req[r].w)]))
    /\ UNCHANGED Stores

\* http.FileServer: the file is served or is missing
FileServer(r) ==
    /\ Running(r, "fileServer")
    /\ \E found \in BOOLEAN :
          Set(r, Return([Enter(req[r]) EXCEPT
                   !.w = IF found
                         THEN WriteBody(req[r].w, [page |-> "", msg |-> "file"])
                         ELSE HttpError(req[r].w, "404 page not found", StatusNotFound)]))
    /\ UNCHANGED Stores

Ping(r) ==
    /\ Running(r, "ping")
    /\ Set(r, Return([Enter(req[r]) EXCEPT
                        !.w = WriteBody(req[r].w, [page |-> "", msg |-> "OK"])]))
    /\ UNCHANGED Stores

\* app.home
home(q, rows, t, fault) ==
    LET res == SnippetLatest(rows, t, fault)
    IN  IF res.err # ErrNil
        THEN Return([Enter(q) EXCEPT !.w = serverError(q.w)])
        ELSE Return([Enter(q) EXCEPT !.w = render(q.w, StatusOK, "home.html", "", ExecOK)])

Home(r) ==
    /\ Running(r, "home")
    /\ \E fault \in BOOLEAN : Set(r, home(req[r], snippets, now, fault))
    /\ UNCHANGED Stores

\* snippetView that takes "no record" for a storage failure
snippetViewNoRecordFails(q, param, rows, t, fault) ==
    LET a == Atoi(param)
        res == SnippetGet(rows, a.val, t, fault)
        q0 == Enter(q)
        q1 == [q0 EXCEPT !.arg = a.val, !.fault = fault]
    IN  IF ~a.ok \/ a.val < 1
        THEN Return([q0 EXCEPT !.w = notFound(q.w)])
        ELSE IF res.err # ErrNil
        THEN Return([q1 EXCEPT !.w = serverError(q.w)])
        ELSE Return([q1 EXCEPT !.shown = res.id,
                               !.w = render(q.w, StatusOK, "view.html", "", ExecOK)])

\* snippetView that answers every storage error "not found"
snippetViewAnyErrorNotFound(q, param, rows, t, fault) ==
    LET a == Atoi(param)
        res == SnippetGet(rows, a.val, t, fault)
        q0 == Enter(q)
        q1 == [q0 EXCEPT !.arg = a.val, !.fault = fault]
    IN  IF ~a.ok \/ a.val < 1
        THEN Return([q0 EXCEPT !.w = notFound(q.w)])
        ELSE IF res.err # ErrNil
        THEN Return([q1 EXCEPT !.w = notFound(q.w)])
        ELSE Return([q1 EXCEPT !.shown = res.id,
                               !.w = render(q.w, StatusOK, "view.html", "", ExecOK)])

\* app.snippetView
snippetView(q, param, rows, t, fault) ==
    LET a == Atoi(param)
        res == SnippetGet(rows, a.val, t, fault)
        q0 == Enter(q)
        q1 == [q0 EXCEPT !.arg = a.val, !.fault = fault]
    IN  IF ~a.ok \/ a.val < 1
        THEN Return([q0 EXCEPT !.w = notFound(q.w)])
        ELSE IF res.err = ErrNoRecord
        THEN Return([q1 EXCEPT !.w = notFound(q.w)])
        ELSE IF res.err # ErrNil
        THEN Return([q1 EXCEPT !.w = serverError(q.w)])
        ELSE Return([q1 EXCEPT !.shown = res.id,
                               !.w = render(q.w, StatusOK, "view.html", "", ExecOK)])

SnippetView(r) ==
    /\ Running(r, "snippetView")
    /\ \E param \in IdParams, fault \in BOOLEAN :
          Set(r, snippetView(req[r], param, snippets, now, fault))
    /\ UNCHANGED Stores

\* app.snippetCreate
snippetCreate(q) == Return([Enter(q) EXCEPT !.w = render(q.w, StatusOK, "create.html", "", ExecOK)])

SnippetCreate(r) ==
    /\ Running(r, "snippetCreate")
    /\ Set(r, snippetCreate(req[r]))
    /\ UNCHANGED Stores

\* app.decodePostForm into snippetCreateForm
decodePostForm(title, content, expires) ==
    LET a == Atoi(expires)
    IN  [ok |-> a.ok, Title |-> title, Content |-> content, Expires |-> a.val]

\* the four CheckField calls of snippetCreatePost
snippetCreateChecks(form) ==
    LET v1 == CheckField(NewValidator, NotBlank(form.Title), "title",
                         "This field cannot be blank")
        v2 == CheckField(v1, MaxRunes(form.Title, TitleLimit), "title",
                         "This field cannot be more than 100 characters long")
        v3 == CheckField(v2, NotBlank(form.Content), "content",
                         "This field cannot be blank")
    IN  CheckField(v3, AllowedInt(form.Expires, AllowedExpires), "expires",
                   "This field must equal 1, 7 or 365")

\* app.snippetCreatePost
SnippetCreatePost(r) ==
    /\ Running(r, "snippetCreatePost")
    /\ \E title \in TitleInputs, content \in ContentInputs, expires \in ExpiresInputs,
          fault \in SnippetInsertFaults :
          LET q == Enter(req[r])
              form == decodePostForm(title, content, expires)
              res == SnippetInsert(snippets, nextSnippetID, form.Title, form.Content,
                                   form.Expires, now, fault)
          IN  IF ~form.ok
              THEN /\ Set(r, Return([q EXCEPT !.form = "undecodable",
                                              !.w = clientError(q.w, StatusBadRequest)]))
                   /\ UNCHANGED <<snippets, nextSnippetID>>
              ELSE IF ~Valid(snippetCreateChecks(form))
              THEN /\ Set(r, Return([q EXCEPT
                            !.form = "invalid", !.v = snippetCreateChecks(form),
                            !.w = render(q.w, StatusUnprocessableEntity, "create.html",
                                         "field errors", ExecOK)]))
                   /\ UNCHANGED <<snippets, nextSnippetID>>
              ELSE /\ res.nextID <= MaxSnippets + 1
                   /\ snippets' = res.rows
                   /\ nextSnippetID' = res.nextID
                   /\ Set(r, Return(
                        IF res.err # ErrNil
                        THEN [q EXCEPT !.form = "valid", !.fault = TRUE,
                                       !.v = snippetCreateChecks(form),
                                       !.w = serverError(q.w)]
                        ELSE [q EXCEPT !.form = "valid", !.newID = res.id,
                                       !.v = snippetCreateChecks(form),
                                       !.w = HttpRedirect(q.w, "POST", ViewLoc(res.id),
                                                          StatusSeeOther)]))
    /\ UNCHANGED <<users, nextUserID, sessions, nextToken, now, call, templateCache>>

\* app.userSignup
UserSignup(r) ==
    /\ Running(r, "userSignup")
    /\ Set(r, Return([Enter(req[r]) EXCEPT
                        !.w = render(req[r].w, StatusOK, "signup.html", "", ExecOK)]))
    /\ UNCHANGED Stores

\* app.userSignupPost: validate, insert the user, set the flash, redirect to login
UserSignupPost(r) ==
    /\ Running(r, "userSignupPost")
    /\ \E name \in Names, email \in Emails \cup {Blank},
          password \in SignupPasswords \cup {Blank}, fault \in UserInsertFaults :
          LET q == Enter(req[r])
              res == UserInsert(users, nextUserID, name, email, password, fault)
          IN  IF email = Blank \/ password = Blank
              THEN /\ Set(r, Return([q EXCEPT
                            !.w = render(q.w, StatusUnprocessableEntity, "signup.html",
                                         "field errors", ExecOK)]))
                   /\ UNCHANGED <<users, nextUserID>>
              ELSE /\ res.nextID <= MaxUsers + 1
                   /\ users' = res.rows
                   /\ nextUserID' = res.nextID
                   /\ Set(r, Return(
                        IF res.err = ErrDuplicateEmail
                        THEN [q EXCEPT
                                !.w = render(q.w, StatusUnprocessableEntity, "signup.html",
                                             "Email address is already in use", ExecOK)]
                        ELSE IF res.err # ErrNil
                        THEN [q EXCEPT !.w = serverError(q.w)]
                        ELSE [q EXCEPT !.newID = res.nextID - 1,
                                       !.sd = PutFlash(q.sd),
                                       !.w = HttpRedirect(q.w, "POST", LoginLoc,
                                                          StatusSeeOther)]))
    /\ UNCHANGED <<snippets, nextSnippetID, sessions, nextToken, now, call, templateCache>>

\* app.userLogin
UserLogin(r) ==
    /\ Running(r, "userLogin")
    /\ Set(r, Return([Enter(req[r]) EXCEPT
                        !.w = render(req[r].w, StatusOK, "login.html", "", ExecOK)]))
    /\ UNCHANGED Stores

CredentialsMessage == "Email or password is incorrect"

\* userLoginPost that stores the id without renewing the token
UserLoginPostNoRenew(r) ==
    /\ Running(r, "userLoginPost")
    /\ \E email \in Emails \cup {Blank}, password \in Passwords \cup {Blank},
          fault \in BOOLEAN :
          LET q == Enter(req[r])
              res == UserAuthenticate(users, email, password, fault)
              q1 == [q EXCEPT !.authErr = res.err, !.loginID = res.id]
          IN  IF email = Blank \/ password = Blank
              THEN Set(r, Return([q EXCEPT
                            !.w = render(q.w, StatusUnprocessableEntity, "login.html",
                                         "field errors", ExecOK)]))
              ELSE IF res.err = ErrInvalidCredentials
              THEN Set(r, Return([q1 EXCEPT
                            !.w = render(q.w, StatusUnprocessableEntity, "login.html",
                                         "Email or password is incorrect", ExecOK)]))
              ELSE IF res.err # ErrNil
              THEN Set(r, Return([q1 EXCEPT !.w = serverError(q.w)]))
              ELSE Set(r, Return([q1 EXCEPT
                            !.sd = PutUserID(q.sd, res.id),
                            !.w = HttpRedirect(q.w, "POST", HomeLoc, StatusSeeOther)]))
    /\ UNCHANGED Stores

\* app.userLoginPost: authenticate; on success renew the token and store the id
UserLoginPost(r) ==
    /\ Running(r, "userLoginPost")
    /\ \E email \in Emails \cup {Blank}, password \in Passwords \cup {Blank},
          fault \in BOOLEAN :
          LET q == Enter(req[r])
              res == UserAuthenticate(users, email, password, fault)
              q1 == [q EXCEPT !.authErr = res.err, !.loginID = res.id]
          IN  IF email = Blank \/ password = Blank
              THEN /\ Set(r, Return([q EXCEPT
                            !.w = render(q.w, StatusUnprocessableEntity, "login.html",
                                         "field errors", ExecOK)]))
                   /\ UNCHANGED <<sessions, nextToken>>
              ELSE IF res.err = ErrInvalidCredentials
              THEN /\ Set(r, Return([q1 EXCEPT
                            !.w = render(q.w, StatusUnprocessableEntity, "login.html",
                                         CredentialsMessage, ExecOK)]))
                   /\ UNCHANGED <<sessions, nextToken>>
              ELSE IF res.err # ErrNil
              THEN /\ Set(r, Return([q1 EXCEPT !.w = serverError(q.w)]))
                   /\ UNCHANGED <<sessions, nextToken>>
              ELSE /\ sessions' = RenewTokenStore(sessions, q.sd)
                   /\ nextToken' = nextToken + 1
                   /\ Set(r, Return([q1 EXCEPT
                            !.sd = PutUserID(RenewTokenData(q.sd, nextToken), res.id),
                            !.w = HttpRedirect(q.w, "POST", HomeLoc, StatusSeeOther)]))
    /\ UNCHANGED <<users, nextUserID, snippets, nextSnippetID, now, call, templateCache>>

\* userLogoutPost that leaves authenticatedUserID in the session
UserLogoutPostKeepsID(r) ==
    /\ Running(r, "userLogoutPost")
    /\ LET q == Enter(req[r])
       IN  /\ sessions' = RenewTokenStore(sessions, q.sd)
           /\ nextToken' = nextToken + 1
           /\ Set(r, Return([q EXCEPT
                    !.sd = PutFlash(RenewTokenData(q.sd, nextToken)),
                    !.w = HttpRedirect(q.w, "POST", HomeLoc, StatusSeeOther)]))
    /\ UNCHANGED <<users, nextUserID, snippets, nextSnippetID, now, call, templateCache>>

\* app.userLogoutPost: renew the token, remove the id, set the flash
UserLogoutPost(r) ==
    /\ Running(r, "userLogoutPost")
    /\ LET q == Enter(req[r])
       IN  /\ sessions' = RenewTokenStore(sessions, q.sd)
           /\ nextToken' = nextToken + 1
           /\ Set(r, Return([q EXCEPT
                    !.sd = PutFlash(RemoveUserID(RenewTokenData(q.sd, nextToken))),
                    !.w = HttpRedirect(q.w, "POST", HomeLoc, StatusSeeOther)]))
    /\ UNCHANGED <<users, nextUserID, snippets, nextSnippetID, now, call, templateCache>>

(***************************************************************************)
(* LoadAndSave after next.ServeHTTP has returned: a modified session is    *)
(* committed under its token (a fresh one if it has none) and the cookie   *)
(* is written.                                                             *)
(***************************************************************************)
SessionSave(r) ==
    /\ req[r].pc = "unwind"
    /\ LET q == req[r]
           fresh == q.sd.token = NoToken
           token == IF fresh THEN nextToken ELSE q.sd.token
       IN  IF q.sd.status = "Modified"
           THEN /\ sessions' = StorePut(sessions, token, q.sd)
                /\ nextToken' = IF fresh THEN nextToken + 1 ELSE nextToken
                /\ Set(r, [q EXCEPT !.pc = "done", !.sd.token = token,
                                    !.w.cookie = token])
           ELSE /\ Set(r, [q EXCEPT !.pc = "done"])
                /\ UNCHANGED <<sessions, nextToken>>
    /\ UNCHANGED <<users, nextUserID, snippets, nextSnippetID, now, call, templateCache>>

\* the response has been sent
Finish(r) ==
    /\ req[r].pc = "done"
    /\ Set(r, Idle)
    /\ UNCHANGED Stores

(***************************************************************************)
(* The environment: a user row is removed from the users table.            *)
(***************************************************************************)
DeleteUser ==
    /\ \E u \in users : users' = users \ {u}
    /\ UNCHANGED <<nextUserID, snippets, nextSnippetID, sessions, nextToken, now, req, call, templateCache>>

\* UTC_TIMESTAMP() of the database moves on.  The clock is read by one step of a
\* request or call and only against the expiry of a snippet, so it is enough
\* that it moves between requests and while some snippet is not expired.
Tick ==
    /\ now < MaxNow
    /\ InFlight = 0
    /\ \E x \in snippets : x.expires > now
    /\ now' = now + 1
    /\ UNCHANGED <<users, nextUserID, snippets, nextSnippetID, sessions, nextToken, req, call, templateCache>>

Step(r) ==
    \/ RecoverPanic(r)
    \/ LogRequest(r)
    \/ SecureHeaders(r)
    \/ Router(r)
    \/ SessionLoad(r)
    \/ Authenticate(r)
    \/ RequireAuthentication(r)
    \/ NotFoundHandler(r)
    \/ FileServer(r)
    \/ Ping(r)
    \/ Home(r)
    \/ SnippetView(r)
    \/ SnippetCreate(r)
    \/ SnippetCreatePost(r)
    \/ UserSignup(r)
    \/ UserSignupPost(r)
    \/ UserLogin(r)
    \/ UserLoginPost(r)
    \/ UserLogoutPost(r)
    \/ SessionSave(r)
    \/ Finish(r)

\* requests are served one after the other (the slots are interchangeable: the
\* first one serves)
ArriveAlone(r) == InFlight = 0 /\ r = 1 /\ Arrive(r)

Next ==
    \/ \E r \in Reqs : ArriveAlone(r)
    \/ \E r \in Reqs : Step(r)
    \/ DeleteUser
    \/ Tick

Spec == Init /\ [][Next]_vars

(***************************************************************************)
(* The models called directly, by callers that run concurrently: the       *)
(* pipeline is idle.  An Insert of UserModel takes three steps (Begin and  *)
(* the hashing, the statement, the Commit); the other methods are one      *)
(* statement.                                                              *)
(***************************************************************************)
Called(c, op, pc) == call[c].op = op /\ call[c].pc = pc

\* UserModel.Insert is called: Begin and GenerateFromPassword
UserInsertBegin(c) ==
    /\ call[c].pc = "idle"
    /\ \E name \in Names, email \in Emails, password \in SignupPasswords,
          fault \in {"none", "begin", "hash"} :
          LET k == [NoCall EXCEPT !.op = "UserInsert", !.name = name, !.email = email,
                                  !.password = password, !.fault = fault,
                                  !.known = \E u \in users : u.email = email]
          IN  IF fault = "none"
              THEN SetCall(c, [k EXCEPT !.pc = "exec"])
              ELSE SetCall(c, [k EXCEPT !.pc = "done",
                       !.err = UserInsert(users, nextUserID, name, email, password,
                                          fault).err])
    /\ UNCHANGED <<users, nextUserID, snippets, nextSnippetID, sessions, nextToken, now, req, templateCache>>

\* UserModel.Insert: InsertStmt.Exec
UserInsertStatement(c) ==
    /\ Called(c, "UserInsert", "exec")
    /\ \E fault \in {"none", "exec", "exec1062"} :
          LET k == call[c]
              res == UserInsertExec(users, nextUserID, k.name, k.email, k.password, fault)
          IN  /\ users' = res.rows
              /\ nextUserID' = res.nextID
              /\ SetCall(c, [k EXCEPT
                       !.pc = IF res.err = ErrNil THEN "commit" ELSE "done",
                       !.fault = fault,
                       !.at = now,
                       !.added = {u.id : u \in res.rows \ users},
                       !.err = res.err])
    /\ UNCHANGED <<snippets, nextSnippetID, sessions, nextToken, now, req, templateCache>>

\* UserModel.Insert: tx.Commit and the return
UserInsertCommit(c) ==
    /\ Called(c, "UserInsert", "commit")
    /\ \E fault \in {"none", "commit"} :
          SetCall(c, [call[c] EXCEPT !.pc = "done", !.fault = fault,
                                     !.err = IF fault = "commit" THEN ErrStorage ELSE ErrNil])
    /\ UNCHANGED <<users, nextUserID, snippets, nextSnippetID, sessions, nextToken, now, req, templateCache>>

\* UserModel.Authenticate
UserAuthenticateCall(c) ==
    /\ call[c].pc = "idle"
    /\ \E email \in Emails, password \in Passwords, fault \in BOOLEAN :
          LET res == UserAuthenticate(users, email, password, fault)
          IN  SetCall(c, [NoCall EXCEPT !.op = "UserAuthenticate", !.pc = "done",
                                        !.email = email, !.password = password,
                                        !.fault = IF fault THEN "query" ELSE "none",
                                        !.known = \E u \in users : u.email = email,
                                        !.at = now, !.id = res.id, !.err = res.err])
    /\ UNCHANGED <<users, nextUserID, snippets, nextSnippetID, sessions, nextToken, now, req, templateCache>>

StoreExpires == {1, 7}

\* SnippetModel.Insert
SnippetInsertCall(c) ==
    /\ call[c].pc = "idle"
    /\ \E expires \in StoreExpires, fault \in SnippetInsertFaults :
          LET res == SnippetInsert(snippets, nextSnippetID, <<84>>, <<66>>, expires, now,
                                   fault)
          IN  /\ snippets' = res.rows
              /\ nextSnippetID' = res.nextID
              /\ SetCall(c, [NoCall EXCEPT !.op = "SnippetInsert", !.pc = "done",
                                           !.fault = fault, !.at = now,
                                           !.added = {x.id : x \in res.rows \ snippets},
                                           !.id = res.id, !.err = res.err])
    /\ UNCHANGED <<users, nextUserID, sessions, nextToken, now, req, templateCache>>

\* SnippetModel.Get
SnippetGetCall(c) ==
    /\ call[c].pc = "idle"
    /\ \E id \in 0..nextSnippetID, fault \in BOOLEAN :
          LET res == SnippetGet(snippets, id, now, fault)
          IN  SetCall(c, [NoCall EXCEPT !.op = "SnippetGet", !.pc = "done", !.arg = id,
                                        !.fault = IF fault THEN "query" ELSE "none",
                                        !.at = now, !.found = res.found, !.id = res.id,
                                        !.err = res.err])
    /\ UNCHANGED <<users, nextUserID, snippets, nextSnippetID, sessions, nextToken, now, req, templateCache>>

\* SnippetModel.Latest
SnippetLatestCall(c) ==
    /\ call[c].pc = "idle"
    /\ \E fault \in BOOLEAN :
          LET res == SnippetLatest(snippets, now, fault)
          IN  SetCall(c, [NoCall EXCEPT !.op = "SnippetLatest", !.pc = "done",
                                        !.fault = IF fault THEN "query" ELSE "none",
                                        !.at = now, !.found = res.err = ErrNil,
                                        !.ids = res.ids, !.err = res.err])
    /\ UNCHANGED <<users, nextUserID, snippets, nextSnippetID, sessions, nextToken, now, req, templateCache>>

NextStore ==
    \/ \E c \in Callers : UserInsertBegin(c)
    \/ \E c \in Callers : UserInsertStatement(c)
    \/ \E c \in Callers : UserInsertCommit(c)
    \/ \E c \in Callers : UserAuthenticateCall(c)
    \/ \E c \in Callers : SnippetInsertCall(c)
    \/ \E c \in Callers : SnippetGetCall(c)
    \/ \E c \in Callers : SnippetLatestCall(c)
    \/ Tick

SpecStore == Init /\ [][NextStore]_vars

(***************************************************************************)
(* Latest over a filled table: n snippets were inserted on day 0, each     *)
(* for 1 or 7 days; then the clock moves and Latest is called.             *)
(***************************************************************************)
Table(n, days) ==
    { [id |-> i, title |-> <<84>>, content |-> <<66>>, created |-> 0,
       expires |-> days[i]] : i \in 1..n }

Tables == UNION { { Table(n, days) : days \in [1..n -> StoreExpires] } : n \in 0..MaxRows }

InitLatest ==
    /\ users = {}
    /\ nextUserID = 1
    /\ snippets \in Tables
    /\ nextSnippetID = Cardinality(snippets) + 1
    /\ sessions = <<>>
    /\ nextToken = 1
    /\ now = 0
    /\ req = [r \in Reqs |-> Idle]
    /\ call = [c \in Callers |-> NoCall]
    /\ templateCache = newTemplateCache

\* Latest reads only: one caller is enough
LatestAlone(c) == c = 1 /\ SnippetLatestCall(c)

NextLatest ==
    \/ \E c \in Callers : LatestAlone(c)
    \/ Tick

SpecLatest == InitLatest /\ [][NextLatest]_vars

(***************************************************************************)
(* A Validator on its own: the caller makes a sequence of CheckField       *)
(* calls, each with any outcome of its check, either of two field keys and *)
(* either of two messages.                                                 *)
(***************************************************************************)
MaxChecks == 3

Keys == {"title", "content"}

Messages == {"first message", "second message"}

CheckCalls == [ok : BOOLEAN, key : Keys, message : Messages]

CheckSeqs == UNION { [1..n -> CheckCalls] : n \in 0..MaxChecks }

\* the first caller holds the Validator
InitValidator ==
    /\ users = {}
    /\ nextUserID = 1
    /\ snippets = {}
    /\ nextSnippetID = 1
    /\ sessions = <<>>
    /\ nextToken = 1
    /\ now = 0
    /\ req = [r \in Reqs |-> Idle]
    /\ \E checks \in CheckSeqs :
          call = [c \in Callers |->
                    IF c = 1 THEN [NoCall EXCEPT !.op = "CheckField",
                                                 !.local = ValidatorLocal(checks)]
                    ELSE NoCall]
    /\ templateCache = newTemplateCache

\* form.CheckField(ok, key, message)
CheckFieldCall(c) ==
    /\ call[c].op = "CheckField"
    /\ call[c].local.applied < Len(call[c].local.checks)
    /\ LET k == call[c].local
           a == k.checks[k.applied + 1]
       IN  SetCall(c, [call[c] EXCEPT
                         !.local.applied = @ + 1,
                         !.local.v = CheckField(k.v, a.ok, a.key, a.message)])
    /\ UNCHANGED <<users, nextUserID, snippets, nextSnippetID, sessions, nextToken, now, req, templateCache>>

NextValidator == \E c \in Callers : CheckFieldCall(c)

SpecValidator == InitValidator /\ [][NextValidator]_vars

(***************************************************************************)
(* The checks of snippetCreatePost on a decoded form: the title is any     *)
(* number of repetitions of a code point of one, two or three bytes, or of *)
(* a white space; expires is any integer of a range around the permitted   *)
(* values.                                                                 *)
(***************************************************************************)
MaxTitleRunes == 101

MaxExpires == 8

\* a, e acute, the euro sign, the space and the ideographic space
TitleRunes == {97, 233, 8364, Space, 12288}

ExpiresValues == (0 - 1)..MaxExpires \cup {364, 365, 366}

InitForm ==
    /\ users = {}
    /\ nextUserID = 1
    /\ snippets = {}
    /\ nextSnippetID = 1
    /\ sessions = <<>>
    /\ nextToken = 1
    /\ now = 0
    /\ req = [r \in Reqs |-> Idle]
    /\ \E rune \in TitleRunes, runes \in 0..MaxTitleRunes, expires \in ExpiresValues :
          call = [c \in Callers |->
                    IF c = 1
                    THEN [NoCall EXCEPT
                            !.op = "snippetCreateForm",
                            !.local = FormLocal(rune, runes,
                                                [Title |-> RepRune(rune, runes),
                                                 Content |-> <<66, 111, 100, 121>>,
                                                 Expires |-> expires])]
                    ELSE NoCall]
    /\ templateCache = newTemplateCache

\* the checks of snippetCreatePost on the form of the caller
ValidateForm(c) ==
    /\ call[c].op = "snippetCreateForm"
    /\ call[c].pc = "idle"
    /\ SetCall(c, [call[c] EXCEPT !.pc = "done",
                                  !.local.v = snippetCreateChecks(call[c].local.form)])
    /\ UNCHANGED <<users, nextUserID, snippets, nextSnippetID, sessions, nextToken, now, req, templateCache>>

NextForm == \E c \in Callers : ValidateForm(c)

SpecForm == InitForm /\ [][NextForm]_vars

(***************************************************************************)
(* Panics.  Any code below recoverPanic may panic: a stage as it is        *)
(* entered, or the last stage after it has written its response.  The      *)
(* stack unwinds to the deferred function of recoverPanic; the frames in   *)
(* between run no code (LoadAndSave does not commit).  How a panic unwinds *)
(* does not depend on the clock or on rows removed from the users table:   *)
(* here the tables change through the requests alone.                      *)
(***************************************************************************)
Panics(r) ==
    /\ LET q == req[r]
       IN  \/ /\ q.pc = "run"
              /\ Stage(q) # "recoverPanic"
              /\ Set(r, [Enter(q) EXCEPT !.pc = "panic", !.panic = "raised"])
           \/ /\ \/ q.pc = "unwind"
                 \/ /\ q.pc = "done"
                    /\ q.panic = "none"
                    /\ \A i \in 1..Len(q.ran) : q.ran[i] # "LoadAndSave"
              /\ Set(r, [q EXCEPT !.pc = "panic", !.panic = "raised"])
    /\ UNCHANGED Stores

\* the panic reaches recoverPanic if the request entered it, net/http otherwise
Recover(r) ==
    /\ req[r].pc = "panic"
    /\ Set(r, IF \E i \in 1..Len(req[r].ran) : req[r].ran[i] = "recoverPanic"
              THEN recoverPanicDeferred(req[r])
              ELSE [req[r] EXCEPT !.pc = "done", !.panic = "escaped"])
    /\ UNCHANGED Stores

NextPanic ==
    \/ \E r \in Reqs : ArriveAlone(r)
    \/ \E r \in Reqs : Step(r)
    \/ \E r \in Reqs : Panics(r)
    \/ \E r \in Reqs : Recover(r)

SpecPanic == Init /\ [][NextPanic]_vars

(***************************************************************************)
(* render on its own, step by step: callers render concurrently, each any  *)
(* page name (registered or not) with any status, and the execution of the *)
(* template may fail.                                                      *)
(***************************************************************************)
PageNames == Pages \cup {"missing.html"}

RenderStatuses == {StatusOK, StatusUnprocessableEntity}

\* a render that parses the page again and stores the result in the cache
renderLookupReparse(cache, page) ==
    IF page \in DOMAIN cache
    THEN LET ts == ParseFiles(page, cache[page].parse + 1)
         IN  [ok |-> TRUE, ts |-> ts, cache |-> [cache EXCEPT ![page] = ts]]
    ELSE [ok |-> FALSE, ts |-> NoTemplate, cache |-> cache]

\* ts, ok := app.templateCache[page]: the cache is read, not written
renderLookup(cache, page) ==
    IF page \in DOMAIN cache
    THEN [ok |-> TRUE, ts |-> cache[page], cache |-> cache]
    ELSE [ok |-> FALSE, ts |-> NoTemplate, cache |-> cache]

\* a render that executes the template into the response, without the buffer
renderExecuteUnbuffered(k) ==
    LET l == k.local
        res == ExecuteTemplate(l.ts, "data", l.execErr)
        w1 == WriteTo(res.buf, WriteHeader(l.w, l.status))
    IN  IF res.err
        THEN [k EXCEPT !.pc = "done", !.local.w = serverError(w1)]
        ELSE [k EXCEPT !.pc = "write", !.local.w = w1]

\* buf := new(bytes.Buffer); err := ts.ExecuteTemplate(buf, "base", data)
renderExecute(k) ==
    LET l == k.local
        res == ExecuteTemplate(l.ts, "data", l.execErr)
    IN  IF res.err
        THEN [k EXCEPT !.pc = "done", !.local.buf = res.buf,
                       !.local.w = serverError(l.w)]
        ELSE [k EXCEPT !.pc = "write", !.local.buf = res.buf]

\* w.WriteHeader(status); buf.WriteTo(w)
renderWrite(k) ==
    [k EXCEPT !.pc = "done",
              !.local.w = WriteTo(k.local.buf, WriteHeader(k.local.w, k.local.status))]

RenderLookup(c) ==
    /\ call[c].pc = "idle"
    /\ \E page \in PageNames, status \in RenderStatuses, execErr \in BOOLEAN :
          LET res == renderLookup(templateCache, page)
              k == [NoCall EXCEPT
                      !.op = "render",
                      !.local = RenderLocal(page, status, execErr, res.ts)]
          IN  /\ templateCache' = res.cache
              /\ SetCall(c, IF res.ok THEN [k EXCEPT !.pc = "exec"]
                            ELSE [k EXCEPT !.pc = "done",
                                           !.local.w = serverError(k.local.w)])
    /\ UNCHANGED <<users, nextUserID, snippets, nextSnippetID, sessions, nextToken, now, req>>

RenderExecute(c) ==
    /\ call[c].pc = "exec"
    /\ SetCall(c, renderExecute(call[c]))
    /\ UNCHANGED <<users, nextUserID, snippets, nextSnippetID, sessions, nextToken, now, req, templateCache>>

RenderWrite(c) ==
    /\ call[c].pc = "write"
    /\ SetCall(c, renderWrite(call[c]))
    /\ UNCHANGED <<users, nextUserID, snippets, nextSnippetID, sessions, nextToken, now, req, templateCache>>

NextRender ==
    \/ \E c \in Callers : RenderLookup(c)
    \/ \E c \in Callers : RenderExecute(c)
    \/ \E c \in Callers : RenderWrite(c)

SpecRender == Init /\ [][NextRender]_vars

(***************************************************************************)
(* Two requests that arrive with the cookie of the same stored session,    *)
(* each one a caller: LoadAndSave loads the session, the handler changes   *)
(* the copy in the request context, LoadAndSave commits it when the        *)
(* handler has returned.                                                   *)
(***************************************************************************)
\* what a stored session can hold (the flash is never cleared)
StoredSessions ==
    { [uid |-> 0, flash |-> TRUE], [uid |-> 1, flash |-> FALSE],
      [uid |-> 1, flash |-> TRUE] }

NotWritten == [token |-> NoToken, uid |-> 0, flash |-> FALSE]

\* a request served by a caller
ServeLocal(cookie, first) ==
    [ cookie |-> cookie,      \* the token of the cookie
      first |-> first,        \* what the store held under it at the start
      sd |-> NoSession,       \* session data in the request context
      handler |-> "",
      loaded |-> 0,           \* how many commits had been made when it loaded
      seq |-> 0,              \* its commit was the seq-th
      wrote |-> NotWritten ]  \* the token and the data it committed

InitSession ==
    /\ users = {}
    /\ nextUserID = 1
    /\ snippets = {}
    /\ nextSnippetID = 1
    /\ nextToken = 2
    /\ now = 0
    /\ req = [r \in Reqs |-> Idle]
    /\ templateCache = newTemplateCache
    /\ \E first \in StoredSessions :
          /\ sessions = [t \in {1} |-> first]
          /\ call = [c \in Callers |->
                       [NoCall EXCEPT !.op = "Serve", !.local = ServeLocal(1, first)]]

Commits == Cardinality({c \in Callers : call[c].op = "Serve" /\ call[c].local.seq > 0})

\* SessionManager.LoadAndSave, before next.ServeHTTP
ServeLoad(c) ==
    /\ Called(c, "Serve", "idle")
    /\ SetCall(c, [call[c] EXCEPT !.pc = "handler",
                                  !.local.sd = Load(sessions, call[c].local.cookie),
                                  !.local.loaded = Commits])
    /\ UNCHANGED <<users, nextUserID, snippets, nextSnippetID, sessions, nextToken, now, req, templateCache>>

\* the handlers by what they do to the session: a page or a failed form leaves
\* it alone, a signup sets the flash, a login and a logout renew the token
SessionHandlers == {"userLogin", "userSignupPost", "userLoginPost", "userLogoutPost"}

ServeHandler(c) ==
    /\ Called(c, "Serve", "handler")
    /\ \E h \in SessionHandlers :
          LET k == [call[c] EXCEPT !.pc = "unwind", !.local.handler = h]
              sd == k.local.sd
          IN  /\ h = "userLogoutPost" => sd.uid # 0
              /\ IF h = "userLogin"
                 THEN /\ SetCall(c, k)
                      /\ UNCHANGED <<sessions, nextToken>>
                 ELSE IF h = "userSignupPost"
                 THEN /\ SetCall(c, [k EXCEPT !.local.sd = PutFlash(sd)])
                      /\ UNCHANGED <<sessions, nextToken>>
                 ELSE /\ sessions' = RenewTokenStore(sessions, sd)
                      /\ nextToken' = nextToken + 1
                      /\ SetCall(c, [k EXCEPT !.local.sd =
                             IF h = "userLoginPost"
                             THEN PutUserID(RenewTokenData(sd, nextToken), 1)
                             ELSE PutFlash(RemoveUserID(RenewTokenData(sd, nextToken)))])
    /\ UNCHANGED <<users, nextUserID, snippets, nextSnippetID, now, req, templateCache>>

\* SessionManager.LoadAndSave, after next.ServeHTTP
ServeSave(c) ==
    /\ Called(c, "Serve", "unwind")
    /\ LET k == call[c]
           sd == k.local.sd
           fresh == sd.token = NoToken
           token == IF fresh THEN nextToken ELSE sd.token
       IN  IF sd.status = "Modified"
           THEN /\ sessions' = StorePut(sessions, token, sd)
                /\ nextToken' = IF fresh THEN nextToken + 1 ELSE nextToken
                /\ SetCall(c, [k EXCEPT !.pc = "done", !.local.sd.token = token,
                                        !.local.seq = Commits + 1,
                                        !.local.wrote = [token |-> token, uid |-> sd.uid,
                                                         flash |-> sd.flash]])
           ELSE /\ SetCall(c, [k EXCEPT !.pc = "done"])
                /\ UNCHANGED <<sessions, nextToken>>
    /\ UNCHANGED <<users, nextUserID, snippets, nextSnippetID, now, req, templateCache>>

NextSession ==
    \/ \E c \in Callers : ServeLoad(c)
    \/ \E c \in Callers : ServeHandler(c)
    \/ \E c \in Callers : ServeSave(c)

SpecSession == InitSession /\ [][NextSession]_vars

(***************************************************************************)
(* snippetCreatePost from the decoded form on, by concurrent callers, with *)
(* SnippetModel.Insert one step per database round trip: Begin, the INSERT *)
(* inside the transaction, Commit, LastInsertId.  The row of an INSERT is  *)
(* in the table once its transaction has committed; its id is taken from   *)
(* the AUTO_INCREMENT counter when the statement runs.                     *)
(***************************************************************************)
\* INSERT INTO snippets (title, content, created, expires) VALUES(?, ?,
\* UTC_TIMESTAMP(), UTC_TIMESTAMP() with no interval added)
InsertRowNoInterval(id, title, content, expires, t) ==
    [id |-> id, title |-> title, content |-> content, created |-> t,
     expires |-> expires]

\* INSERT INTO snippets (title, content, created, expires) VALUES(?, ?,
\* UTC_TIMESTAMP(), DATE_ADD(UTC_TIMESTAMP(), INTERVAL ? DAY)), t being the clock
\* of the database when the statement runs
InsertRow(id, title, content, expires, t) ==
    [id |-> id, title |-> title, content |-> content, created |-> t,
     expires |-> t + expires]

NoRow == InsertRow(0, <<>>, <<>>, 0, 0)

\* the id of the row inserted last by any statement
LastInsertIdOfTable(row, nextID) == nextID - 1

\* sql.Result.LastInsertId: the id the server reported for this statement
LastInsertId(row, nextID) == row.id

\* the Expires of the decoded forms
CreateExpires == AllowedExpires \cup {2}

CreateLocal(expires) ==
    [ expires |-> expires,
      row |-> NoRow,          \* the row of its INSERT
      latest |-> 0 ]          \* the id inserted last by any call when it read its own

\* snippetCreatePost: the checks, and Insert up to DB.Begin
CreateBegin(c) ==
    /\ call[c].pc = "idle"
    /\ \E expires \in CreateExpires, fault \in {"none", "begin"} :
          LET form == [Title |-> <<84>>, Content |-> <<66>>, Expires |-> expires]
              k == [NoCall EXCEPT !.op = "snippetCreatePost", !.local = CreateLocal(expires)]
          IN  IF ~Valid(snippetCreateChecks(form))
              THEN SetCall(c, [k EXCEPT !.pc = "done", !.err = "invalid"])
              ELSE IF fault = "begin"
              THEN SetCall(c, [k EXCEPT !.pc = "done", !.fault = fault, !.err = ErrStorage])
              ELSE SetCall(c, [k EXCEPT !.pc = "exec"])
    /\ UNCHANGED <<users, nextUserID, snippets, nextSnippetID, sessions, nextToken, now, req, templateCache>>

\* Insert: tx.Stmt(sm.InsertStmt).Exec
CreateExec(c) ==
    /\ Called(c, "snippetCreatePost", "exec")
    /\ \E fault \in {"none", "exec"} :
          LET k == call[c]
          IN  IF fault = "exec"
              THEN /\ SetCall(c, [k EXCEPT !.pc = "done", !.fault = fault,
                                           !.err = ErrStorage])
                   /\ UNCHANGED nextSnippetID
              ELSE /\ nextSnippetID' = nextSnippetID + 1
                   /\ SetCall(c, [k EXCEPT !.pc = "commit", !.at = now,
                            !.local.row = InsertRow(nextSnippetID, <<84>>, <<66>>,
                                                    k.local.expires, now)])
    /\ UNCHANGED <<users, nextUserID, snippets, sessions, nextToken, now, req, templateCache>>

\* Insert: tx.Commit, or the deferred tx.Rollback when it fails
CreateCommit(c) ==
    /\ Called(c, "snippetCreatePost", "commit")
    /\ \E fault \in {"none", "commit"} :
          LET k == call[c]
          IN  IF fault = "commit"
              THEN /\ SetCall(c, [k EXCEPT !.pc = "done", !.fault = fault,
                                           !.err = ErrStorage])
                   /\ UNCHANGED snippets
              ELSE /\ snippets' = snippets \cup {k.local.row}
                   /\ SetCall(c, [k EXCEPT !.pc = "lastid", !.added = {k.local.row.id}])
    /\ UNCHANGED <<users, nextUserID, nextSnippetID, sessions, nextToken, now, req, templateCache>>

\* Insert: res.LastInsertId and the return
CreateLastId(c) ==
    /\ Called(c, "snippetCreatePost", "lastid")
    /\ \E fault \in {"none", "lastid"} :
          LET k == call[c]
          IN  IF fault = "lastid"
              THEN SetCall(c, [k EXCEPT !.pc = "done", !.fault = fault, !.err = ErrStorage])
              ELSE SetCall(c, [k EXCEPT !.pc = "done", !.err = ErrNil,
                                        !.local.latest = nextSnippetID - 1,
                                        !.id = LastInsertId(k.local.row, nextSnippetID)])
    /\ UNCHANGED <<users, nextUserID, snippets, nextSnippetID, sessions, nextToken, now, req, templateCache>>

\* the clock of the database moves
ClockTick ==
    /\ now < MaxNow
    /\ now' = now + 1
    /\ UNCHANGED <<users, nextUserID, snippets, nextSnippetID, sessions, nextToken, req, call, templateCache>>

NextCreate ==
    \/ \E c \in Callers : CreateBegin(c)
    \/ \E c \in Callers : CreateExec(c)
    \/ \E c \in Callers : CreateCommit(c)
    \/ \E c \in Callers : CreateLastId(c)
    \/ ClockTick

SpecCreate == Init /\ [][NextCreate]_vars

(***************************************************************************)
(* Properties.                                                             *)
(***************************************************************************)
Ran(q, stage) == \E i \in 1..Len(q.ran) : q.ran[i] = stage

JustRan(q, stage) == Len(q.ran) > 0 /\ q.ran[Len(q.ran)] = stage

\* the authentication status of a request: Unknown until authenticate has run
AuthStatus(q) ==
    IF ~Ran(q, "authenticate") /\ ~q.ctxAuth THEN "Unknown"
    ELSE IF q.ctxAuth THEN "Authenticated"
    ELSE "Anonymous"

IsPrefix(s, t) == Len(s) <= Len(t) /\ \A i \in 1..Len(s) : s[i] = t[i]

GatedRoutes == { "GET /snippet/create", "POST /snippet/create", "POST /user/logout" }

OpenRoutes ==
    { "GET /", "GET /snippet/view/:id", "GET /user/signup", "POST /user/signup",
      "GET /user/login", "POST /user/login" }

\* C1: a request to a protected route whose context carries no authentication
\* marker is answered with a 303 redirect to /user/login, and its handler is not
\* invoked: it inserts no snippet and changes no session value.
C1_UnauthenticatedIsRedirected ==
    \A r \in Reqs :
        LET q == req[r]
        IN  (q.pc = "done" /\ q.route \in GatedRoutes /\ ~q.ctxAuth)
            => /\ q.w.code = StatusSeeOther
               /\ q.w.sentLoc = LoginLoc
               /\ ~Ran(q, HandlerOf(q.route))
               /\ q.newID = 0
               /\ q.sd.status = "Unmodified"

\* C2: a request carries the authentication marker only if authenticate read a
\* non-zero id from its session and Exists answered true, without error, in this
\* same request.
C2_MarkerNeedsExistingUser ==
    \A r \in Reqs :
        LET q == req[r]
        IN  q.ctxAuth
            => /\ Ran(q, "authenticate")
               /\ q.id # 0
               /\ q.exists = "true"
               /\ ~q.existsErr

C2_Witness ==
    \E r \in Reqs : req[r].ctxAuth /\ req[r].cookie \in DOMAIN sessions

\* C3: the gate runs on exactly the three protected routes: a request to any
\* other dynamic route never enters the gate and reaches its handler, whatever
\* its authentication status; on a protected route the handler runs only behind
\* the gate.
C3_GateOnlyOnProtectedRoutes ==
    \A r \in Reqs :
        LET q == req[r]
        IN  q.pc # "idle"
            => /\ Ran(q, "requireAuthentication") => q.route \in GatedRoutes
               /\ (q.route \in GatedRoutes /\ Ran(q, HandlerOf(q.route)))
                      => Ran(q, "requireAuthentication")
               /\ (q.route \in OpenRoutes /\ q.pc = "done") => Ran(q, HandlerOf(q.route))

C3_Witness ==
    \E r \in Reqs :
        /\ req[r].pc = "done"
        /\ req[r].route = "GET /snippet/view/:id"
        /\ AuthStatus(req[r]) = "Anonymous"
        /\ Ran(req[r], "snippetView")

OuterOrder == <<"recoverPanic", "logRequest", "secureHeaders", "router", "LoadAndSave",
                "authenticate">>

ExpectedOrder(route) ==
    IF route \in GatedRoutes
    THEN OuterOrder \o <<"requireAuthentication", HandlerOf(route)>>
    ELSE OuterOrder \o <<HandlerOf(route)>>

\* C4: the stages of a request to a dynamic route run in the order recovery,
\* logging, secure headers, router, session load, authenticate, the gate (protected
\* routes only), handler: each at most once, the gate never before authenticate.
C4_StagesRunInOrder ==
    \A r \in Reqs :
        LET q == req[r]
        IN  (q.pc # "idle" /\ q.route \in GatedRoutes \cup OpenRoutes)
            => IsPrefix(q.ran, ExpectedOrder(q.route))

C4_Witness ==
    \E r \in Reqs :
        /\ req[r].pc = "done"
        /\ req[r].route = "POST /snippet/create"
        /\ Len(req[r].ran) = 8

\* C5: when the session holds a non-zero user id and Exists returns a storage
\* error, the response is a 500 and the request is not marked authenticated.
C5_ExistsErrorIsServerError ==
    \A r \in Reqs :
        LET q == req[r]
        IN  q.existsErr
            => /\ q.id # 0
               /\ q.w.code = StatusInternalServerError
               /\ q.w.body[1].msg = "Internal Server Error"
               /\ ~q.ctxAuth

C5_Witness ==
    \E r \in Reqs : req[r].existsErr /\ req[r].pc = "done"

Stale(q) == q.id # 0 /\ q.exists = "false" /\ ~q.existsErr

\* C6: when the session's user id no longer exists (Exists answers false without
\* error), authenticate writes no response and sets no marker, and the request
\* goes on to the next stage as an anonymous request.
C6_StaleIdIsAnonymous ==
    \A r \in Reqs :
        LET q == req[r]
        IN  Stale(q)
            => /\ ~q.ctxAuth
               /\ JustRan(q, "authenticate")
                     => q.pc = "run" /\ q.w.calls = <<>> /\ q.w.body = <<>>
               /\ q.pc \in {"unwind", "done"} => Len(q.ran) > Len(OuterOrder)

C6_Witness ==
    \E r \in Reqs :
        /\ Stale(req[r])
        /\ req[r].pc = "done"
        /\ req[r].route = "GET /"
        /\ req[r].w.code = StatusOK

\* C7: when the session's authenticatedUserID is absent or zero, authenticate
\* passes the request on as it is: the User store is not queried, the context
\* gets no marker, and the middleware writes nothing to the response.
C7_AnonymousPassesUnchanged ==
    \A r \in Reqs :
        LET q == req[r]
        IN  (Ran(q, "authenticate") /\ q.id = 0)
            => /\ q.exists = "none"
               /\ ~q.existsErr
               /\ ~q.ctxAuth
               /\ JustRan(q, "authenticate")
                     => /\ q.pc = "run"
                        /\ q.w.calls = <<>>
                        /\ q.w.body = <<>>
                        /\ q.sd = Load(sessions, q.cookie)

C7_Witness ==
    \E r \in Reqs :
        /\ JustRan(req[r], "authenticate")
        /\ req[r].id = 0
        /\ req[r].cookie \in DOMAIN sessions

\* C8: the authentication status of a request leaves Unknown only in the
\* authenticate stage and, once Anonymous or Authenticated, stays what it is until
\* the request ends, also when its handler stores or removes the user id in the
\* session.
C8_StatusResolvedOnce ==
    [][\A r \in Reqs :
          (req[r].pc # "idle" /\ req'[r].pc # "idle")
          => /\ AuthStatus(req[r]) # "Unknown" => AuthStatus(req'[r]) = AuthStatus(req[r])
             /\ AuthStatus(req'[r]) # AuthStatus(req[r])
                   => Running(r, "authenticate")]_vars

C8_Witness ==
    \E r \in Reqs :
        /\ req[r].pc = "done"
        /\ req[r].route = "POST /user/logout"
        /\ Ran(req[r], "userLogoutPost")
        /\ AuthStatus(req[r]) = "Authenticated"
        /\ req[r].sd.uid = 0

LoggedIn(q) == q.route = "POST /user/login" /\ q.authErr = ErrNil

\* C9: when a successful POST /user/login is done, the session is stored under a
\* token that differs from the token the request arrived with, it holds the id of
\* the authenticated user, the cookie carries the new token, and the token the
\* request arrived with identifies no session.
C9_LoginRenewsToken ==
    \A r \in Reqs :
        LET q == req[r]
        IN  (q.pc = "done" /\ LoggedIn(q))
            => /\ q.sd.token # q.cookie
               /\ q.sd.token \in DOMAIN sessions
               /\ q.loginID # 0
               /\ sessions[q.sd.token].uid = q.loginID
               /\ q.w.cookie = q.sd.token
               /\ q.cookie \notin DOMAIN sessions

C9_Witness ==
    \E r \in Reqs :
        /\ req[r].pc = "done"
        /\ LoggedIn(req[r])
        /\ req[r].cookie # NoToken
        /\ req[r].id = 0
        /\ req[r].sd.flash

\* C10: a login attempt with wrong credentials on an anonymous session returns
\* 422 with the one generic message and leaves the session as it was; a GET
\* /snippet/create with an anonymous session is redirected to login; after a
\* login with correct credentials the stored session holds the user's id, and a
\* GET /snippet/create whose session holds the id of an existing user returns 200
\* with the form.
C10_LoginAttempts ==
    \A r \in Reqs :
        LET q == req[r]
        IN  q.pc = "done"
            => /\ (q.route = "POST /user/login" /\ q.authErr = ErrInvalidCredentials
                      /\ q.id = 0)
                  => /\ q.w.code = StatusUnprocessableEntity
                     /\ q.w.body = <<[page |-> "login.html",
                                      msg |-> "Email or password is incorrect"]>>
                     /\ q.sd = Load(sessions, q.cookie)
                     /\ q.sd.uid = 0
                     /\ q.w.cookie = NoToken
               /\ (q.route = "GET /snippet/create" /\ q.id = 0)
                  => /\ q.w.code = StatusSeeOther
                     /\ q.w.sentLoc = LoginLoc
                     /\ ~Ran(q, "snippetCreate")
               /\ (LoggedIn(q) /\ q.id = 0)
                  => /\ q.w.code = StatusSeeOther
                     /\ q.sd.token \in DOMAIN sessions
                     /\ sessions[q.sd.token].uid = q.loginID
               /\ (q.route = "GET /snippet/create" /\ q.id # 0 /\ q.exists = "true")
                  => /\ q.w.code = StatusOK
                     /\ q.w.body = <<[page |-> "create.html", msg |-> ""]>>

C10_Witness ==
    \E r \in Reqs :
        /\ req[r].pc = "done"
        /\ req[r].route = "GET /snippet/create"
        /\ req[r].w.code = StatusOK
        /\ req[r].sd.flash

LoggedOut(q) == q.route = "POST /user/logout" /\ Ran(q, "userLogoutPost")

\* the token identifies no session, or a session without a user id
NoUserID(store, t) == t \notin DOMAIN store \/ store[t].uid = 0

C11_LogoutDone ==
    \A r \in Reqs :
        LET q == req[r]
        IN  /\ (q.pc = "done" /\ LoggedOut(q))
               => /\ q.w.code = StatusSeeOther
                  /\ q.w.sentLoc = HomeLoc
                  /\ q.sd.token # q.cookie
                  /\ q.w.cookie = q.sd.token
                  /\ NoUserID(sessions, q.cookie)
                  /\ q.sd.token \in DOMAIN sessions
                  /\ NoUserID(sessions, q.sd.token)
            /\ (q.pc = "done" /\ q.route \in GatedRoutes /\ q.id = 0)
               => /\ q.w.code = StatusSeeOther
                  /\ q.w.sentLoc = LoginLoc
                  /\ ~Ran(q, HandlerOf(q.route))

C11_LaterRequests ==
    /\ \A r \in Reqs :
          (Running(r, "authenticate") /\ req'[r] # req[r])
          => /\ req'[r].id = IF NoUserID(sessions, req[r].cookie) THEN 0
                             ELSE sessions[req[r].cookie].uid
             /\ req'[r].id = 0 => ~req'[r].ctxAuth
    /\ \A t \in Tokens :
          (NoUserID(sessions, t) /\ ~NoUserID(sessions', t))
          => \E r \in Reqs : /\ req[r].pc = "unwind"
                              /\ LoggedIn(req[r])
                              /\ req[r].sd.token = t
                              /\ req[r].cookie # t

\* C11: when a POST /user/logout of an authenticated session is done, the session
\* is stored under a new token without a user id and the token the request came
\* with identifies no session; a request bearing a token without a user id is
\* anonymous and is redirected to login on a protected route; and a token without
\* a user id never gets one: only a successful login stores a user id, under a
\* token of its own.
C11_LogoutEndsAuthentication == []C11_LogoutDone /\ [][C11_LaterRequests]_vars

C11_Witness ==
    \E r \in Reqs :
        /\ req[r].pc = "done"
        /\ LoggedOut(req[r])
        /\ req[r].ctxAuth
        /\ req[r].cookie # NoToken
        /\ req[r].sd.token \in DOMAIN sessions

\* C12 as stated: a POST /user/logout on a session without a user id ends like
\* the logout of an authenticated session (303 to /) and the session stays
\* anonymous.
C12_AnonymousLogoutIsLogout ==
    \A r \in Reqs :
        LET q == req[r]
        IN  (q.pc = "done" /\ q.route = "POST /user/logout" /\ q.id = 0)
            => /\ q.w.code = StatusSeeOther
               /\ q.w.sentLoc = HomeLoc
               /\ q.sd.uid = 0

\* C12: a POST /user/logout on a session without a user id never reaches the
\* logout handler: the gate answers 303 to /user/login, the session is left as
\* it was, anonymous, and no token or cookie is issued.
C12_AnonymousLogoutIsRedirected ==
    \A r \in Reqs :
        LET q == req[r]
        IN  (q.pc = "done" /\ q.route = "POST /user/logout" /\ q.id = 0)
            => /\ q.w.code = StatusSeeOther
               /\ q.w.sentLoc = LoginLoc
               /\ ~Ran(q, "userLogoutPost")
               /\ q.sd = Load(sessions, q.cookie)
               /\ q.sd.uid = 0
               /\ q.w.cookie = NoToken

C12_Witness ==
    \E r \in Reqs :
        /\ req[r].pc = "done"
        /\ req[r].route = "POST /user/logout"
        /\ req[r].id = 0
        /\ req[r].cookie \in DOMAIN sessions

Done(c, op) == call[c].op = op /\ call[c].pc = "done"

\* the stored password of the email matches the one given
Matches(k) ==
    \E u \in users : u.email = k.email /\ CompareHashAndPassword(u.hashed, k.password)

\* C13: Authenticate returns the id of the stored user, without error, exactly
\* when the email was registered and the password matches its hash; an unknown
\* email and a wrong password both give id 0 with ErrInvalidCredentials; a
\* storage failure gives id 0 with an error that is neither.
C13_AuthenticateResult ==
    \A c \in Callers :
        LET k == call[c]
        IN  Done(c, "UserAuthenticate")
            => /\ (k.err = ErrNil) <=> (k.fault = "none" /\ k.known /\ Matches(k))
               /\ k.err = ErrNil
                  => \E u \in users : u.email = k.email /\ u.id = k.id /\ k.id # 0
               /\ (k.fault = "none" /\ ~(k.known /\ Matches(k)))
                  => k.err = ErrInvalidCredentials /\ k.id = 0
               /\ k.fault # "none"
                  => k.err \notin {ErrNil, ErrInvalidCredentials} /\ k.id = 0

C13_Witness ==
    \E c \in Callers :
        /\ Done(c, "UserAuthenticate")
        /\ call[c].known /\ ~Matches(call[c])
        /\ call[c].err = ErrInvalidCredentials
        /\ call[c].id = 0

\* C14: an Insert of an email that is already registered returns
\* ErrDuplicateEmail and stores no row, the registered user staying stored; an
\* Insert of an email nobody else registers succeeds and stores one row; an Insert
\* that meets a storage failure returns that failure's error, never
\* ErrDuplicateEmail.
C14_DuplicateEmail ==
    \A c \in Callers :
        LET k == call[c]
        IN  Done(c, "UserInsert")
            => /\ (k.known /\ k.fault = "none")
                  => /\ k.err = ErrDuplicateEmail
                     /\ k.added = {}
                     /\ \E u \in users : u.email = k.email
               /\ k.err = ErrDuplicateEmail
                  => /\ k.fault = "none"
                     /\ k.added = {}
                     /\ \E u \in users : u.email = k.email
               /\ (k.fault = "none" /\ \A d \in Callers \ {c} : call[d].email # k.email)
                  => /\ k.err = ErrNil
                     /\ \E u \in users : u.email = k.email /\ k.added = {u.id}
               /\ k.fault \in {"begin", "hash", "exec", "commit"} => k.err = ErrStorage
               /\ k.fault = "exec1062" => k.err = ErrOtherKey

C14_Witness ==
    \E c, d \in Callers :
        /\ Done(c, "UserInsert") /\ Done(d, "UserInsert")
        /\ call[c].email = call[d].email
        /\ call[c].err = ErrNil
        /\ call[d].known
        /\ call[d].err = ErrDuplicateEmail
        /\ Cardinality(users) = 1

\* the Insert calls of an email
InsertsOf(email) == {c \in Callers : call[c].op = "UserInsert" /\ call[c].email = email}

\* C15: no two stored users share an email; of the Insert calls of one email at
\* most one returns nil, and when all of them have returned without meeting a
\* storage failure exactly one returned nil and each other one ErrDuplicateEmail,
\* however their steps interleave.
C15_EmailIsUnique ==
    /\ \A u, v \in users : u.email = v.email => u = v
    /\ \A email \in Emails :
          LET P == InsertsOf(email)
              won == {c \in P : call[c].pc = "done" /\ call[c].err = ErrNil}
          IN  /\ Cardinality(won) <= 1
              /\ (P # {} /\ \A c \in P : call[c].pc = "done" /\ call[c].fault = "none")
                 => /\ Cardinality(won) = 1
                    /\ \A c \in P \ won : call[c].err = ErrDuplicateEmail

C15_Witness ==
    \E c, d \in Callers :
        /\ c # d
        /\ Done(c, "UserInsert") /\ Done(d, "UserInsert")
        /\ call[c].email = call[d].email
        /\ ~call[c].known /\ ~call[d].known
        /\ call[c].err = ErrNil
        /\ call[d].err = ErrDuplicateEmail

\* C16: when an Insert of UserModel has returned an error, no user row of that
\* call is stored; a row is stored only by a call that returns nil.
C16_UserInsertIsAtomic ==
    \A c \in Callers :
        (Done(c, "UserInsert") /\ call[c].err # ErrNil)
        => \A u \in users : u.id \notin call[c].added

\* C17: an Insert of SnippetModel that returns an error returns id 0 and leaves
\* no row of that call stored; one that returns no error has stored exactly one
\* new row, with the id it returns.
C17_SnippetInsertAllOrNothing ==
    \A c \in Callers :
        LET k == call[c]
        IN  Done(c, "SnippetInsert")
            => /\ k.err # ErrNil
                  => k.id = 0 /\ \A x \in snippets : x.id \notin k.added
               /\ k.err = ErrNil
                  => k.added = {k.id} /\ \E x \in snippets : x.id = k.id

\* C18: Get returns a snippet only if a snippet with the id asked for is stored
\* and its expiry is strictly after the time of the call; when it returns none
\* and the query did not fail the error is ErrNoRecord, the same for an expired id
\* and for an id that was never stored.
C18_GetOnlyUnexpired ==
    \A c \in Callers :
        LET k == call[c]
        IN  Done(c, "SnippetGet")
            => /\ k.found
                  => /\ k.err = ErrNil
                     /\ k.id = k.arg
                     /\ \E x \in snippets : x.id = k.arg /\ x.expires > k.at
               /\ (~k.found /\ k.fault = "none") => k.err = ErrNoRecord /\ k.id = 0
               /\ (\E x \in snippets : x.id = k.arg /\ x.expires <= k.at) => ~k.found
               /\ k.fault # "none" => ~k.found /\ k.err \notin {ErrNil, ErrNoRecord}

C18_Witness ==
    \E c \in Callers :
        /\ Done(c, "SnippetGet")
        /\ \E x \in snippets : x.id = call[c].arg /\ x.expires = call[c].at
        /\ ~call[c].found
        /\ call[c].err = ErrNoRecord

Range(seq) == {seq[i] : i \in 1..Len(seq)}

\* ids of the snippets that are not expired at time t
Live(t) == {x.id : x \in {y \in snippets : y.expires > t}}

\* C19: Latest returns at most 10 ids, each of a stored snippet that is not
\* expired at the time of the call, in strictly descending order; no snippet that
\* is not expired and was left out has a higher id than a returned one, and
\* fewer than 10 are returned only when there are no more.
C19_LatestTenDescending ==
    \A c \in Callers :
        LET k == call[c]
        IN  (Done(c, "SnippetLatest") /\ k.err = ErrNil)
            => /\ Len(k.ids) <= LatestLimit
               /\ Range(k.ids) \subseteq Live(k.at)
               /\ \A i, j \in 1..Len(k.ids) : i < j => k.ids[i] > k.ids[j]
               /\ \A y \in Live(k.at) \ Range(k.ids) : \A i \in 1..Len(k.ids) : y < k.ids[i]
               /\ Len(k.ids) < LatestLimit => Range(k.ids) = Live(k.at)

C19_Witness ==
    \E c \in Callers :
        /\ Done(c, "SnippetLatest")
        /\ call[c].err = ErrNil
        /\ Len(call[c].ids) = LatestLimit
        /\ Live(call[c].at) \ Range(call[c].ids) # {}
        /\ \E x \in snippets : x.expires <= call[c].at /\ x.id > call[c].ids[LatestLimit]

Unexpired(id) == \E x \in snippets : x.id = id /\ x.expires > now

C20_Created ==
    \A r \in Reqs :
        LET q == req[r]
        IN  (q.pc = "done" /\ q.route = "POST /snippet/create" /\ q.form = "valid"
                /\ ~q.fault)
            => /\ q.ctxAuth
               /\ q.w.code = StatusSeeOther
               /\ q.newID >= 1
               /\ q.w.sentLoc = ViewLoc(q.newID)
               /\ \E x \in snippets : x.id = q.newID

C20_CreateAndView ==
    \A r \in Reqs :
        LET q == req'[r]
        IN  /\ (Running(r, "snippetCreatePost") /\ q # req[r] /\ q.newID # 0)
               => /\ \A x \in snippets : x.id # q.newID
                  /\ \E x \in snippets' : x.id = q.newID /\ snippets' = snippets \cup {x}
            /\ (Running(r, "snippetView") /\ q # req[r] /\ q.arg >= 1 /\ ~q.fault
                   /\ ~q.existsErr)
               => IF Unexpired(q.arg)
                  THEN /\ q.w.code = StatusOK
                       /\ q.shown = q.arg
                       /\ q.w.body = <<[page |-> "view.html", msg |-> ""]>>
                  ELSE /\ q.w.code = StatusNotFound
                       /\ q.shown = 0

\* C20: an authenticated POST /snippet/create with a valid form that meets no
\* storage failure is answered 303 with Location /snippet/view/<id>, <id> being
\* the id of the one snippet the request inserted; a GET /snippet/view/<id> that
\* meets no storage failure is answered 200 with that snippet while it is not
\* expired and 404 once it is.
C20_CreateThenView == []C20_Created /\ [][C20_CreateAndView]_vars

C20_Witness ==
    \E r \in Reqs :
        /\ req[r].pc = "done"
        /\ req[r].route = "GET /snippet/view/:id"
        /\ req[r].w.code = StatusNotFound
        /\ ~req[r].fault
        /\ \E x \in snippets : x.id = req[r].arg /\ x.expires <= now

(***************************************************************************)
(* Form validation in POST /snippet/create.                                *)
(***************************************************************************)
\* the step of snippetCreatePost called SnippetModel.Insert
InsertCalled(r) ==
    \/ snippets' # snippets
    \/ nextSnippetID' # nextSnippetID
    \/ req'[r].newID # 0
    \/ req'[r].fault

HasErrors(v) == Len(v.FieldErrors) > 0 \/ Len(v.NonFieldErrors) > 0

\* C21: POST /snippet/create calls SnippetModel.Insert only when the form's
\* validator holds no field error and no non-field error; when it holds one the
\* form is rendered again with the field errors and status 422, and the
\* snippets table is as it was.
C21_ValidGatesInsert ==
    [][\A r \in Reqs :
          Running(r, "snippetCreatePost") /\ req'[r] # req[r] =>
             /\ InsertCalled(r) => ~HasErrors(req'[r].v)
             /\ HasErrors(req'[r].v) =>
                   /\ ~InsertCalled(r)
                   /\ snippets' = snippets
                   /\ req'[r].w.code = StatusUnprocessableEntity
                   /\ req'[r].w.calls = <<StatusUnprocessableEntity>>
                   /\ req'[r].w.body = <<[page |-> "create.html", msg |-> "field errors"]>>]_vars

\* a form with a blank title and a wrong expiry was answered, and another form
\* was stored
C21_Witness ==
    /\ snippets # {}
    /\ \E r \in Reqs :
          /\ req[r].pc = "done"
          /\ req[r].route = "POST /snippet/create"
          /\ HasFieldError(req[r].v, "title")
          /\ HasFieldError(req[r].v, "expires")
          /\ req[r].w.code = StatusUnprocessableEntity

(***************************************************************************)
(* The Validator.                                                          *)
(***************************************************************************)
\* the first of the calls made so far that failed for the key, 0 if none
FirstFailing(k, key) ==
    LET F == {i \in 1..k.applied : ~k.checks[i].ok /\ k.checks[i].key = key}
    IN  IF F = {} THEN 0 ELSE CHOOSE i \in F : \A j \in F : i <= j

Validated(k) == k.op = "snippetCreateForm" /\ k.pc = "done"

RuneLimits == {0, 1, 50, TitleLimit, TitleLimit + 1}

\* C23: a title of more than 100 code points fails validation with an error
\* under "title"; a title that is not blank and has at most 100 code points
\* gets no error under "title"; MaxRunes(s, n) holds exactly when s has at most
\* n code points, however many bytes they take.
C23_TitleRuneLimit ==
    \A c \in Callers : Validated(call[c]) =>
       LET k == call[c].local
       IN  /\ k.runes > 100 => HasFieldError(k.v, "title") /\ ~Valid(k.v)
           /\ k.runes > 0 /\ k.runes <= 100 /\ k.rune \in {97, 233, 8364}
                 => ~HasFieldError(k.v, "title")
           /\ \A n \in RuneLimits : MaxRunes(k.form.Title, n) <=> k.runes <= n

\* a title of 100 euro signs, 300 bytes, passes the check
C23_Witness ==
    \E c \in Callers :
       /\ Validated(call[c])
       /\ call[c].local.rune = 8364
       /\ call[c].local.runes = 100
       /\ Len(call[c].local.form.Title) = 300
       /\ ~HasFieldError(call[c].local.v, "title")

\* C24: the checks record an error under "expires" exactly when expires is
\* none of 1, 7 and 365.
C24_ExpiresPermitted ==
    \A c \in Callers : Validated(call[c]) =>
       (HasFieldError(call[c].local.v, "expires") <=> call[c].local.form.Expires \notin {1, 7, 365})

\* expires = 2, between two permitted values, is refused while the title passes
C24_Witness ==
    \E c \in Callers :
       /\ Validated(call[c])
       /\ call[c].local.form.Expires = 2
       /\ HasFieldError(call[c].local.v, "expires")
       /\ ~HasFieldError(call[c].local.v, "title")

(***************************************************************************)
(* Panic recovery and the security headers.                                *)
(***************************************************************************)
\* C25: a panic raised below recoverPanic, in any stage of any route, unwinds
\* to the deferred function of recoverPanic and never reaches net/http.
C25_PanicNeverEscapes ==
    \A r \in Reqs :
       /\ req[r].panic # "escaped"
       /\ req[r].pc = "panic" => Ran(req[r], "recoverPanic")
       /\ req[r].pc = "done" /\ req[r].panic # "none" => req[r].panic = "recovered"

\* the handler of POST /snippet/create panicked and the panic was recovered
C25_Witness ==
    \E r \in Reqs :
       /\ req[r].pc = "done"
       /\ req[r].panic = "recovered"
       /\ JustRan(req[r], "snippetCreatePost")

Count(seq, x) == Cardinality({i \in 1..Len(seq) : seq[i] = x})

InternalServerError == [page |-> "", msg |-> "Internal Server Error"]

\* C26: after a recovered panic the response carries Connection: close, the
\* panic value and a stack trace are in the error log, and the response is one
\* generic 500, whatever the panicking code had written before.
C26_RecoveredPanicIs500 ==
    \A r \in Reqs : req[r].panic = "recovered" =>
       /\ "Connection" \in req[r].w.sentHdr
       /\ req[r].errorLog = <<[err |-> "panic value", trace |-> TRUE]>>
       /\ req[r].w.code = StatusInternalServerError
       /\ Count(req[r].w.calls, StatusInternalServerError) = 1
       /\ req[r].w.body = <<InternalServerError>>

\* C27: every response, on every route and for every outcome, the 500 after a
\* recovered panic included, was sent with the five security headers.
C27_EveryResponseHasSecurityHeaders ==
    \A r \in Reqs : req[r].w.code # 0 => SecureHeaderNames \subseteq req[r].w.sentHdr

Rendering(k) == k.op = "render"

\* C29: until render has the whole page in its buffer it writes nothing to the
\* response; for a page name that is not registered, or when the execution of
\* the template fails, the response is the server error alone, without the
\* status asked for and without any part of the page; otherwise it is the status
\* asked for, written once, and the whole page.
C29_RenderAllOrNothing ==
    \A c \in Callers : Rendering(call[c]) =>
       LET k == call[c].local
       IN  /\ call[c].pc \in {"exec", "write"} => k.w = NewWriter
           /\ call[c].pc = "done" =>
                 IF k.page \notin Pages \/ k.execErr
                 THEN /\ k.w.calls = <<StatusInternalServerError>>
                      /\ k.w.code = StatusInternalServerError
                      /\ k.w.body = <<InternalServerError>>
                 ELSE /\ k.w.calls = <<k.status>>
                      /\ k.w.code = k.status
                      /\ k.w.body = <<[page |-> k.page, msg |-> "data"]>>

\* the execution of a registered page failed with part of the page in the
\* buffer, and the response is the server error
C29_Witness ==
    \E c \in Callers :
       /\ Rendering(call[c])
       /\ call[c].pc = "done"
       /\ call[c].local.page = "view.html"
       /\ call[c].local.execErr
       /\ call[c].local.buf # <<>>
       /\ call[c].local.w.code = StatusInternalServerError

\* C30: the template cache is the one built at start-up in every state, no step
\* of any render changes it, and every render of a registered page works on the
\* template set compiled at start-up for that page, however the renders
\* interleave.
C30_TemplateCacheIsFixed ==
    /\ [](/\ templateCache = newTemplateCache
          /\ \A c \in Callers : Rendering(call[c]) /\ call[c].local.page \in Pages
                => call[c].local.ts = ParseFiles(call[c].local.page, 1))
    /\ [][templateCache' = templateCache]_vars

\* two renders of the same page, one finished while the other had read the cache
\* and not yet written, used the same template set
C30_Witness ==
    \E c, d \in Callers :
       /\ c # d
       /\ Rendering(call[c]) /\ Rendering(call[d])
       /\ call[c].local.page = "home.html" /\ call[d].local.page = "home.html"
       /\ call[c].pc = "done" /\ call[d].pc = "write"
       /\ call[c].local.ts = call[d].local.ts
       /\ call[c].local.ts = templateCache["home.html"]

(***************************************************************************)
(* The flash message.                                                      *)
(***************************************************************************)
\* the response of q is a page of the template cache
Rendered(q) == \E i \in 1..Len(q.w.body) : q.w.body[i].page \in Pages

\* C31: when a page has been rendered for a session that held a flash message,
\* the template data of the page carried the message and the session holds it
\* no longer.
C31_FlashIsPopped ==
    \A r \in Reqs :
       LET q == req[r]
       IN  q.pc = "done" /\ Rendered(q) /\ q.cookie \in DOMAIN sessions
              /\ q.sd.token = q.cookie /\ Load(sessions, q.cookie).flash
           => /\ newTemplateData.Flash # ""
              /\ ~q.sd.flash

(***************************************************************************)
(* The statuses of GET /snippet/view/:id.                                  *)
(***************************************************************************)
\* a step of snippetView for a request authenticate has not answered; arg is
\* the id handed to SnippetModel.Get, 0 when Get was not called
C32_ViewStep ==
    \A r \in Reqs :
        LET q == req'[r]
        IN  (Running(r, "snippetView") /\ q # req[r] /\ ~q.existsErr)
            => /\ q.w.code \in {StatusOK, StatusNotFound, StatusInternalServerError}
               /\ q.arg >= 0
               /\ (q.arg = 0 => q.w.code = StatusNotFound /\ ~q.fault)
               /\ (q.arg >= 1 /\ q.fault => q.w.code = StatusInternalServerError)
               /\ (q.arg >= 1 /\ ~q.fault /\ ~Unexpired(q.arg)
                      => q.w.code = StatusNotFound)
               /\ (q.w.code = StatusOK
                      <=> q.arg >= 1 /\ ~q.fault /\ Unexpired(q.arg))
               /\ (q.w.code = StatusOK
                      => /\ q.shown = q.arg
                         /\ q.w.body = <<[page |-> "view.html", msg |-> ""]>>)
               /\ (q.w.code # StatusOK => q.shown = 0)

\* C32: GET /snippet/view/:id is answered 404 without a query of the store when
\* the id is not an integer or is below 1, 404 when the store has no such
\* snippet, 500 on any other storage error, and 200 with the snippet exactly when
\* SnippetModel.Get returned it.
C32_ViewStatuses == [][C32_ViewStep]_vars

\* a view with the id "abc" or "0" was answered 404 with no query of the store
C32_NoQuery ==
    \E r \in Reqs :
        /\ req[r].pc = "done" /\ req[r].route = "GET /snippet/view/:id"
        /\ ~req[r].existsErr
        /\ req[r].arg = 0 /\ req[r].w.code = StatusNotFound

\* a view whose query of the store failed was answered 500
C32_Witness ==
    \E r \in Reqs :
        /\ req[r].pc = "done" /\ req[r].route = "GET /snippet/view/:id"
        /\ ~req[r].existsErr
        /\ req[r].arg >= 1 /\ req[r].fault
        /\ req[r].w.code = StatusInternalServerError

(***************************************************************************)
(* Cache-Control on the protected routes.                                  *)
(***************************************************************************)
\* C33: on a protected route, once the handler has run for an authenticated
\* request the gate ran before it and set Cache-Control, and whatever status the
\* handler sent went out with that header; for a request that is not
\* authenticated the gate called the redirect to /user/login and the handler
\* never runs.
C33_ProtectedNoStore ==
    \A r \in Reqs :
       LET q == req[r]
           h == HandlerOf(q.route)
       IN  q.pc # "idle" /\ q.route \in ProtectedRoutes
           => /\ (Ran(q, h)
                    => /\ q.ctxAuth
                       /\ \E i, j \in 1..Len(q.ran) :
                             i < j /\ q.ran[i] = "requireAuthentication" /\ q.ran[j] = h
                       /\ "Cache-Control" \in q.w.hdr
                       /\ (q.w.code # 0 => "Cache-Control" \in q.w.sentHdr))
              /\ (Ran(q, "requireAuthentication") /\ ~q.ctxAuth
                    => /\ ~Ran(q, h)
                       /\ q.w.location = LoginLoc
                       /\ \E i \in 1..Len(q.w.calls) : q.w.calls[i] = StatusSeeOther
                       /\ (~q.existsErr
                             => q.w.code = StatusSeeOther /\ q.w.sentLoc = LoginLoc))

\* an authenticated POST /snippet/create was answered by its handler, with
\* Cache-Control among the headers sent
C33_Witness ==
    \E r \in Reqs :
       /\ req[r].pc = "done" /\ req[r].route = "POST /snippet/create"
       /\ req[r].ctxAuth /\ Ran(req[r], "snippetCreatePost")
       /\ req[r].w.code # 0 /\ "Cache-Control" \in req[r].w.sentHdr

\* an anonymous GET /snippet/create was redirected by the gate
C33_Redirected ==
    \E r \in Reqs :
       /\ req[r].pc = "done" /\ req[r].route = "GET /snippet/create"
       /\ ~req[r].ctxAuth /\ ~Ran(req[r], "snippetCreate")
       /\ req[r].w.code = StatusSeeOther /\ req[r].w.sentLoc = LoginLoc

(***************************************************************************)
(* The stored password.                                                    *)
(***************************************************************************)
\* C34: the password field of every stored user is the bcrypt hash of a password
\* and never a plaintext; the row an Insert of UserModel stored holds the hash of
\* the password the call was given, and an Insert whose hashing failed returns
\* an error and has stored no row.
C34_OnlyTheHashIsStored ==
    /\ \A u \in users :
          /\ u.hashed \notin Passwords
          /\ \E password \in Passwords : u.hashed = Hash(password)
    /\ \A c \in Callers :
          LET k == call[c]
          IN  k.op = "UserInsert"
              => /\ \A u \in users :
                       u.id \in k.added
                       => /\ u.hashed = Hash(k.password)
                          /\ u.hashed # k.password
                          /\ CompareHashAndPassword(u.hashed, k.password)
                 /\ (k.pc = "done" /\ k.fault = "hash"
                       => k.err # ErrNil /\ k.added = {})

\* one Insert stored a user while the hashing of another failed
C34_Witness ==
    \E c, d \in Callers :
       /\ Done(c, "UserInsert") /\ call[c].err = ErrNil
       /\ \E u \in users : u.id \in call[c].added /\ u.hashed = Hash(call[c].password)
       /\ Done(d, "UserInsert") /\ call[d].fault = "hash" /\ call[d].added = {}

(***************************************************************************)
(* Two requests on one session.                                            *)
(***************************************************************************)
\* the callers that committed under token t
Writers(t) == {c \in Callers : call[c].local.seq > 0 /\ call[c].local.wrote.token = t}

C36_ExpiresIsCreatedPlusDays ==
    \A x \in snippets :
       /\ \E days \in AllowedExpires : x.expires = x.created + days
       /\ \E c \in Callers :
             /\ call[c].op = "snippetCreatePost"
             /\ x.id \in call[c].added
             /\ call[c].local.expires \in AllowedExpires
             /\ x.created = call[c].at
             /\ x.created <= now
             /\ x.expires = call[c].at + call[c].local.expires

\* snippets for 7 and for 365 days are stored, one of them inserted after the
\* clock had moved
C36_Witness ==
    \E x, y \in snippets :
       /\ x.created >= 1 /\ x.expires = x.created + 7
       /\ y.expires = y.created + 365

(***************************************************************************)
(* The ids of concurrent Inserts.                                          *)
(***************************************************************************)
Inserted(c) == Done(c, "snippetCreatePost") /\ call[c].err = ErrNil

\* C38: whatever the interleaving of the Inserts, the id a successful Insert
\* returns is positive, is returned by no other Insert, and is the id of the row
\* that this call inserted, which is stored.
C38_OwnDistinctIds ==
    \A c \in Callers :
       Inserted(c)
       => /\ call[c].id >= 1
          /\ \A d \in Callers : d # c /\ Inserted(d) => call[d].id # call[c].id
          /\ call[c].id = call[c].local.row.id
          /\ call[c].added = {call[c].id}
          /\ call[c].local.row \in snippets
          /\ \A x \in snippets : x.id = call[c].id => x = call[c].local.row

\* an Insert returned its own id although another call had inserted a later row
\* before it read the id, and that call returned the later id
C38_Witness ==
    \E c, d \in Callers :
       /\ Inserted(c) /\ Inserted(d)
       /\ call[c].local.latest > call[c].id
       /\ call[d].id = call[c].local.latest

(***************************************************************************)
(* One response per request.                                               *)
(***************************************************************************)
\* C37: a request that went through authenticate has at most one status
\* written; when Exists returned a storage error that status is the 500 of
\* authenticate, no later stage runs, no second status or body is written and no
\* store is changed.
C37_OneResponse ==
    \A r \in Reqs :
       LET q == req[r]
       IN  /\ Ran(q, "authenticate") => Len(q.w.calls) <= 1
           /\ q.existsErr
              => /\ q.w.calls = <<StatusInternalServerError>>
                 /\ Len(q.w.body) = 1
                 /\ JustRan(q, "authenticate")
                 /\ q.newID = 0
                 /\ q.sd.status = "Unmodified"

(***************************************************************************)
(* A form that cannot be decoded.                                          *)
(***************************************************************************)
C39_UndecodableStep ==
    \A r \in Reqs :
       LET q == req'[r]
       IN  (Running(r, "snippetCreatePost") /\ q # req[r] /\ q.form = "undecodable")
           => /\ q.w.code = StatusBadRequest
              /\ q.w.calls = <<StatusBadRequest>>
              /\ Len(q.w.body) = 1
              /\ q.newID = 0
              /\ ~q.fault
              /\ snippets' = snippets
              /\ nextSnippetID' = nextSnippetID

\* C39: a POST /snippet/create whose form data cannot be decoded (expires is
\* not an integer) is answered 400, not 500, and inserts no snippet.
C39_UndecodableIsBadRequest == [][C39_UndecodableStep]_vars

\* a POST /snippet/create with expires "abc" was answered 400
C39_Witness ==
    \E r \in Reqs :
       /\ req[r].pc = "done" /\ req[r].route = "POST /snippet/create"
       /\ req[r].form = "undecodable"
       /\ req[r].w.code = StatusBadRequest
       /\ req[r].newID = 0

====
